---- MODULE Spec2Model ----
(***************************************************************************)
(* State-machine model of the flink stepper motor subdevice driver         *)
(* (src/subdevices/flink_steppermotor.py): the per-channel hardware        *)
(* registers, and the public controller methods as sequences of register   *)
(* accesses.  One controller call is in flight at a time; every register   *)
(* access of a call is one step, so the states between two accesses of a   *)
(* call are states of the model.                                           *)
(***************************************************************************)
EXTENDS Integers, Sequences, FiniteSets, TLC

VARIABLES
    reg,         \* hardware: channel -> registers of that channel
    BASE_CLOCK,  \* self._BASE_CLOCK, read at construction
    pc,          \* position of the caller: "idle", a label inside a call, "done"
    call,        \* the method in flight (or just finished) and its arguments
    loc,         \* local variables of the method in flight
    todo,        \* register accesses still to issue: a sequence of statements,
                 \* each the sequence of library calls one statement makes
    stmtErr,     \* a library call of the current statement returned < 0
    log,         \* library calls issued by the call so far, with their outcome
    result,      \* "none" while running; "ok" or the exception raised
    snap,        \* reg as it was when the call began
    trail,       \* completed calls that led here: scenario monitor
    nCalls,      \* number of calls begun
    nFaults,     \* number of library calls that returned < 0
    retval,      \* the value a finished call returned to its caller
    baseclockReg,\* hardware: the base clock register of the subdevice
    nEnv,        \* number of steps of the hardware and of other processes
    instance,    \* FlinkDevice._instance: "None" or the one FlinkDevice object
    restype,     \* self.lib.flink_open.restype of the library object in use
    fileOpen,    \* self.fileOpen
    openedFiles, \* self._openedFiles
    fileName,    \* self.fileName
    dev,         \* self.dev: None, or the value flink_open returned
    handles,     \* transport: handles flink_open returned and nobody closed
    registeredIRQ, \* FlinkInterrupt.registeredIRQ: irq -> << sigNr, callback >>
    kernelIRQ,   \* kernel: IRQs with an active registration of this process
    handler,     \* interpreter: signal number -> installed handler
    hostCall,    \* the last call on FlinkDevice or FlinkInterrupt and its outcome
    nHostCalls   \* number of such calls

\* state of FlinkDevice, of FlinkInterrupt and of what they talk to
hostVars == <<instance, restype, fileOpen, openedFiles, fileName, dev, handles,
              registeredIRQ, kernelIRQ, handler, hostCall, nHostCalls>>

\* state of the stepper motor subdevice and of its caller
motorVars == <<reg, BASE_CLOCK, pc, call, loc, todo, stmtErr, log, result, snap, trail, nCalls,
               nFaults, retval, baseclockReg, nEnv>>

vars == <<motorVars, hostVars>>

----------------------------------------------------------------------------
(* Bounds of the model *)

\* c_uint32 register width; scaled down from 32 so that 2^RegBits is an
\* integer TLC can represent
RegBits == 24

\* controller calls per behaviour
MaxCalls == 3

\* library calls per behaviour that return a negative code
MaxFaults == 1

Channels == {0, 1}

----------------------------------------------------------------------------
(* class LocalConfReg, RunMode, Direction, StepMode, PhaseMode *)

DIRECTION == 0
STEP_MODE == 1
PHASE_MODE == 2
RUN_MODE_0 == 3
RUN_MODE_1 == 4
START == 5
RESET_STEPS == 6

DISABLED == 0
STEPPING == 1
FIXED_SPEED == 2
RESERVED == 3

CLOCKWISE == 1
COUNTER_CLOCKWISE == 0
FULL_STEPS == 1
HALF_STEPS == 0
TWO_PHASE == 1
ONE_PHASE == 0

----------------------------------------------------------------------------
(* Bit arithmetic on register words *)

\* (word & (1<<bit)) >> bit
BitOf(word, bit) == (word \div (2^bit)) % 2

\* 1 << bit
Mask(bit) == 2^bit

RECURSIVE BitOr(_, _)
\* a | b
BitOr(a, b) ==
    IF a = 0 THEN b
    ELSE IF b = 0 THEN a
    ELSE (IF a % 2 = 1 \/ b % 2 = 1 THEN 1 ELSE 0) + 2 * BitOr(a \div 2, b \div 2)

RECURSIVE BitAndNot(_, _)
\* a & ~b
BitAndNot(a, b) ==
    IF a = 0 THEN 0
    ELSE IF b = 0 THEN a
    ELSE (IF a % 2 = 1 /\ b % 2 = 0 THEN 1 ELSE 0) + 2 * BitAndNot(a \div 2, b \div 2)

\* conversion of a Python int to the c_uint32 argument of a library call
ToUint32(v) == v % (2^RegBits)

\* math.ceil(float(a)/b) for b >= 1
CeilDiv(a, b) == -((-a) \div b)

----------------------------------------------------------------------------
(* Unit conversion *)

\* slip: only a speed of 0 is refused
calculatePrescalerRaises_onlyZero(speed) == speed = 0

calculatePrescalerRaises(speed) == speed <= 0

\* slip: the quotient is not clamped
calculatePrescaler_unclamped(bc, speed) == bc \div speed

\* int(self._BASE_CLOCK/speed), clamped to 1
calculatePrescaler(bc, speed) ==
    LET prescaler == bc \div speed
    IN  IF prescaler > 0 THEN prescaler ELSE 1

calculateAccelerationFromStepsRaises(prescaler_start, prescaler_soll, steps) ==
    prescaler_start < 1 \/ prescaler_soll < 1 \/ steps < 1

calculateAccelerationFromSteps(prescaler_start, prescaler_soll, steps) ==
    CeilDiv(prescaler_start - prescaler_soll, steps)

calculateSpeedRaises(prescaler) == prescaler <= 0

\* float(self._BASE_CLOCK)/float(prescaler): the quotient, kept as a fraction
calculateSpeed(bc, prescaler) == [num |-> bc, den |-> prescaler]

calculateStepsFromAccelerationRaises(prescaler_start, prescaler_soll, acceleration) ==
    prescaler_start < 1 \/ prescaler_soll < 1 \/ acceleration < 1

\* slip: the quotient is rounded down
calculateStepsFromAcceleration_floor(prescaler_start, prescaler_soll, acceleration) ==
    (prescaler_start - prescaler_soll) \div acceleration

calculateStepsFromAcceleration(prescaler_start, prescaler_soll, acceleration) ==
    CeilDiv(prescaler_start - prescaler_soll, acceleration)

----------------------------------------------------------------------------
(* Library calls and their effect on the hardware *)

LibCall(k, ch, v) == [k |-> k, ch |-> ch, v |-> v]

WriteKinds == {"set_local_config_reg_bits_atomic", "reset_local_config_reg_bits_atomic",
               "set_prescaler_start", "set_prescaler_top", "set_acceleration",
               "set_steps_to_do", "global_step_reset", "set_local_config_reg"}

ReadKinds == {"get_local_config_reg", "get_prescaler_start", "get_prescaler_top",
              "get_acceleration", "get_steps_to_do", "get_steps_have_done",
              "get_baseclock"}

\* slip: only the first channel's step counter is reset
globalStepReset_firstChannel(r) == [r EXCEPT ![0].stepsHaveDone = 0]

\* flink_steppermotor_global_step_reset: "Resets all stepcounter (steps have
\* done) on all channels"
globalStepReset(r) == [ch \in DOMAIN r |-> [r[ch] EXCEPT !.stepsHaveDone = 0]]

\* the registers after a library call that returned >= 0; a 1 written to
\* the reset-steps bit resets the step counter of the channel
Apply(r, c) ==
    IF c.k = "set_local_config_reg_bits_atomic"
        THEN [r EXCEPT ![c.ch].localConf = BitOr(@, c.v),
                       ![c.ch].stepsHaveDone = IF BitOf(c.v, RESET_STEPS) = 1 THEN 0 ELSE @]
    ELSE IF c.k = "set_local_config_reg"
        THEN [r EXCEPT ![c.ch].localConf = ToUint32(c.v)]
    ELSE IF c.k = "reset_local_config_reg_bits_atomic"
        THEN [r EXCEPT ![c.ch].localConf = BitAndNot(@, c.v)]
    ELSE IF c.k = "set_prescaler_start"
        THEN [r EXCEPT ![c.ch].prescalerStart = ToUint32(c.v)]
    ELSE IF c.k = "set_prescaler_top"
        THEN [r EXCEPT ![c.ch].prescalerTop = ToUint32(c.v)]
    ELSE IF c.k = "set_acceleration"
        THEN [r EXCEPT ![c.ch].acceleration = ToUint32(c.v)]
    ELSE IF c.k = "set_steps_to_do"
        THEN [r EXCEPT ![c.ch].stepsToDo = ToUint32(c.v)]
    ELSE IF c.k = "global_step_reset"
        THEN globalStepReset(r)
    ELSE r

----------------------------------------------------------------------------
(* Internal methods: the library calls each statement makes *)

setStartSpeed(channel, prescaler) == << LibCall("set_prescaler_start", channel, prescaler) >>

setSollSpeed(channel, prescaler) == << LibCall("set_prescaler_top", channel, prescaler) >>

setAcceleration(channel, acceleration) == << LibCall("set_acceleration", channel, acceleration) >>

setStepsToDo(channel, stepps) == << LibCall("set_steps_to_do", channel, stepps) >>

\* slip: the bits of the target value are set, the others are not reset
setTwoBits_setOnly(channel, numberToSet, maskBit_0, maskBit_1) ==
    IF numberToSet = 0 THEN
        << LibCall("reset_local_config_reg_bits_atomic", channel, BitOr(maskBit_0, maskBit_1)) >>
    ELSE IF numberToSet = 1 THEN
        << LibCall("set_local_config_reg_bits_atomic", channel, maskBit_0) >>
    ELSE IF numberToSet = 2 THEN
        << LibCall("set_local_config_reg_bits_atomic", channel, maskBit_1) >>
    ELSE
        << LibCall("set_local_config_reg_bits_atomic", channel, BitOr(maskBit_0, maskBit_1)) >>

\* both library calls are made before either return code is looked at
setTwoBits(channel, numberToSet, maskBit_0, maskBit_1) ==
    IF numberToSet = 0 THEN
        << LibCall("reset_local_config_reg_bits_atomic", channel, BitOr(maskBit_0, maskBit_1)) >>
    ELSE IF numberToSet = 1 THEN
        << LibCall("set_local_config_reg_bits_atomic", channel, maskBit_0),
           LibCall("reset_local_config_reg_bits_atomic", channel, maskBit_1) >>
    ELSE IF numberToSet = 2 THEN
        << LibCall("reset_local_config_reg_bits_atomic", channel, maskBit_0),
           LibCall("set_local_config_reg_bits_atomic", channel, maskBit_1) >>
    ELSE
        << LibCall("set_local_config_reg_bits_atomic", channel, BitOr(maskBit_0, maskBit_1)) >>

\* slip: the register is read, changed and written back as a whole
setBit_readModifyWrite(channel, setBitTo, maskBit) ==
    IF setBitTo = 0
        THEN << LibCall("set_local_config_reg", channel, BitAndNot(reg[channel].localConf, maskBit)) >>
        ELSE << LibCall("set_local_config_reg", channel, BitOr(reg[channel].localConf, maskBit)) >>

setBit(channel, setBitTo, maskBit) ==
    IF setBitTo = 0
        THEN << LibCall("reset_local_config_reg_bits_atomic", channel, maskBit) >>
        ELSE << LibCall("set_local_config_reg_bits_atomic", channel, maskBit) >>

----------------------------------------------------------------------------
(* Bit-field setters and getters *)

setDirection(channel, direction) ==
    IF direction = CLOCKWISE
        THEN setBit(channel, CLOCKWISE, Mask(DIRECTION))
        ELSE setBit(channel, COUNTER_CLOCKWISE, Mask(DIRECTION))

setStepMode(channel, stepMode) ==
    IF stepMode = FULL_STEPS
        THEN setBit(channel, FULL_STEPS, Mask(STEP_MODE))
        ELSE setBit(channel, HALF_STEPS, Mask(STEP_MODE))

\* slip: the direction is read at the step-mode bit
getDirection_stepModeBit(confReg) ==
    IF BitOf(confReg, STEP_MODE) = CLOCKWISE THEN CLOCKWISE ELSE COUNTER_CLOCKWISE

getDirection(confReg) ==
    IF BitOf(confReg, DIRECTION) = CLOCKWISE THEN CLOCKWISE ELSE COUNTER_CLOCKWISE

getStepMode(confReg) ==
    IF BitOf(confReg, STEP_MODE) = FULL_STEPS THEN FULL_STEPS ELSE HALF_STEPS

getPhaseMode(confReg) ==
    IF BitOf(confReg, PHASE_MODE) = ONE_PHASE THEN ONE_PHASE ELSE TWO_PHASE

\* slip: the phase mode is written at the start bit
setPhaseMode_startMask(channel, phaseMode) ==
    IF phaseMode = ONE_PHASE
        THEN setBit(channel, ONE_PHASE, Mask(START))
        ELSE setBit(channel, TWO_PHASE, Mask(START))

setPhaseMode(channel, phaseMode) ==
    IF phaseMode = ONE_PHASE
        THEN setBit(channel, ONE_PHASE, Mask(PHASE_MODE))
        ELSE setBit(channel, TWO_PHASE, Mask(PHASE_MODE))

\* slip: the reserved mode is let through
setRunModeRaises_reservedAllowed(runMode) ==
    runMode \notin {DISABLED, STEPPING, FIXED_SPEED, RESERVED}

setRunModeRaises(runMode) == runMode \notin {DISABLED, STEPPING, FIXED_SPEED}

setRunMode(channel, runMode) ==
    setTwoBits(channel, runMode, Mask(RUN_MODE_0), Mask(RUN_MODE_1))

\* (confReg & mask) >> RUN_MODE_0
getRunMode(confReg) == BitOf(confReg, RUN_MODE_0) + 2 * BitOf(confReg, RUN_MODE_1)

\* slip: the start bit is not looked at
isMotorRunning_always(confReg) == confReg >= 0

\* slip: tests the reset-steps bit instead of the start bit
isMotorRunning_resetStepsBit(confReg) == BitOf(confReg, RESET_STEPS) = 1

isMotorRunning(confReg) == BitOf(confReg, START) = 1

----------------------------------------------------------------------------
(* Statements of the public methods after their checks, in program order *)

\* slip: the soll speed is written first
changeSollSpeedWrites_sollFirst(channel, acc_raw, pre_soll) ==
    << setSollSpeed(channel, pre_soll),
       setAcceleration(channel, acc_raw) >>

\* changeSollSpeedWhileRunning: "do not change the order"
changeSollSpeedWrites(channel, acc_raw, pre_soll) ==
    << setAcceleration(channel, acc_raw),
       setSollSpeed(channel, pre_soll) >>

\* stop: the atomic reset of the start bit
stopWrites(channel) ==
    << << LibCall("reset_local_config_reg_bits_atomic", channel, Mask(START)) >> >>

\* slip: the start bit is reset before the acceleration is written
stopWithAccelerationWrites_resetFirst(channel, acc_raw) ==
    stopWrites(channel) \o << setAcceleration(channel, acc_raw) >>

\* stop with an acceleration in fixed-speed mode: the new acceleration, then
\* the atomic reset of the start bit
stopWithAccelerationWrites(channel, acc_raw) ==
    << setAcceleration(channel, acc_raw) >> \o stopWrites(channel)

\* slip: start pulses the reset-steps bit
startWrites_resetStepsMask(channel) ==
    << << LibCall("set_local_config_reg_bits_atomic", channel, Mask(RESET_STEPS)) >> >>

\* start: the atomic set of the start bit
startWrites(channel) ==
    << << LibCall("set_local_config_reg_bits_atomic", channel, Mask(START)) >> >>

\* slip: updateSpeeds clears the steps to do as well
updateSpeedsWrites_stepsToDo(channel, pre_start, pre_soll, acc_raw) ==
    << setStartSpeed(channel, pre_start),
       setSollSpeed(channel, pre_soll),
       setAcceleration(channel, acc_raw),
       setStepsToDo(channel, 0) >>

updateSpeedsWrites(channel, pre_start, pre_soll, acc_raw) ==
    << setStartSpeed(channel, pre_start),
       setSollSpeed(channel, pre_soll),
       setAcceleration(channel, acc_raw) >>

\* slip: the run mode is written after the speeds
initMotorWrites_runModeLate(channel, runMode, pre_start, pre_soll, acc_raw, steppsToDo, direction, stepMode, phaseMode) ==
    << setStartSpeed(channel, pre_start),
       setSollSpeed(channel, pre_soll),
       setAcceleration(channel, acc_raw),
       setRunMode(channel, runMode),
       setStepsToDo(channel, steppsToDo),
       setDirection(channel, direction),
       setStepMode(channel, stepMode),
       setPhaseMode(channel, phaseMode) >>

initMotorWrites(channel, runMode, pre_start, pre_soll, acc_raw, steppsToDo, direction, stepMode, phaseMode) ==
    << setRunMode(channel, runMode),
       setStartSpeed(channel, pre_start),
       setSollSpeed(channel, pre_soll),
       setAcceleration(channel, acc_raw),
       setStepsToDo(channel, steppsToDo),
       setDirection(channel, direction),
       setStepMode(channel, stepMode),
       setPhaseMode(channel, phaseMode) >>

----------------------------------------------------------------------------
(* Arguments the caller draws from *)

RunModeArgs == {DISABLED, STEPPING, FIXED_SPEED, RESERVED}
\* <<startSpeed, sollSpeed, acc_steps>>: soll slower than start, soll faster
\* than start and above the base clock; then one non-positive speed or step
\* count each
SpeedArgs == { <<100, 50, 50>>, <<100, 2000000, 50>>,
               <<0, 50, 50>>, <<100, -5, 50>>, <<100, 50, 0>> }
\* <<startSpeed, sollSpeed, acceleration>> of updateSpeeds: those of initMotor,
\* soll faster than start below the base clock, and soll equal to start
UpdateArgs == SpeedArgs \cup { <<100, 1000, 50>>, <<100, 100, 50>> }
\* <<sollSpeed, acceleration>> of changeSollSpeedWhileRunning
ChangeArgs == { <<50, 50>>, <<2000000, 50>>, <<-5, 50>>, <<50, 0>> }
\* acceleration of stop, when given
StopStepArgs == {-1, 0, 50}
StepsToDoArgs == {200}
\* <<direction, stepMode, phaseMode>>: the defaults of initMotor
BitFieldArgs == { <<CLOCKWISE, FULL_STEPS, TWO_PHASE>> }

NoArgs == [runMode |-> 0, startSpeed |-> 0, sollSpeed |-> 0, hasAcc |-> FALSE,
           steps |-> 0, steppsToDo |-> 0, direction |-> 0, stepMode |-> 0, phaseMode |-> 0,
           prescaler_start |-> 0, prescaler_soll |-> 0]

NoLoc == [pre_start |-> 0, pre_soll |-> 0]

\* a call that raised, or returns None, hands no value to its caller
NoValue == "None"

\* the registers of a channel after reset
\* no FlinkDevice constructed yet (_instance = None, line 275), an empty
\* registry (flink_interrupt.py line 52), nothing open, nothing registered
None == [isNone |-> TRUE, h |-> 0]

Pointer(h) == [isNone |-> FALSE, h |-> h]

NoHostCall == [op |-> "none", arg |-> << >>, result |-> "none", lib |-> <<>>]

HostInit ==
    /\ instance = "None"
    /\ restype = "c_int"
    /\ fileOpen = FALSE
    /\ openedFiles = {}
    /\ fileName = "None"
    /\ dev = None
    /\ handles = {}
    /\ registeredIRQ = << >>
    /\ kernelIRQ = {}
    /\ handler = << >>
    /\ hostCall = NoHostCall
    /\ nHostCalls = 0

InitChannel ==
    [localConf |-> 0, prescalerStart |-> 0, prescalerTop |-> 0,
     acceleration |-> 0, stepsToDo |-> 0, stepsHaveDone |-> 0]

Init ==
    /\ reg = [ch \in Channels |-> InitChannel]
    /\ BASE_CLOCK = 1000000
    /\ pc = "idle"
    /\ call = [op |-> "none", ch |-> 0, a |-> NoArgs]
    /\ loc = NoLoc
    /\ todo = << >>
    /\ stmtErr = FALSE
    /\ log = << >>
    /\ result = "none"
    /\ snap = reg
    /\ trail = << >>
    /\ nCalls = 0
    /\ nFaults = 0
    /\ retval = NoValue
    /\ baseclockReg = BASE_CLOCK
    /\ nEnv = 0
    /\ HostInit

----------------------------------------------------------------------------
(* Steps shared by all methods *)

\* entry into a method
Begin(op, ch, a) ==
    /\ pc = "idle"
    /\ nCalls < MaxCalls
    /\ nCalls' = nCalls + 1
    /\ call' = [op |-> op, ch |-> ch, a |-> a]
    /\ snap' = reg

\* the method raises (or returns) without a further register access
Finish(res, newLog) ==
    /\ pc' = "done"
    /\ result' = res
    /\ log' = newLog
    /\ todo' = << >>
    /\ stmtErr' = FALSE
    /\ loc' = NoLoc
    /\ retval' = NoValue

\* the method returns value to its caller
Returning(value, newLog) ==
    /\ pc' = "done"
    /\ result' = "ok"
    /\ log' = newLog
    /\ todo' = << >>
    /\ stmtErr' = FALSE
    /\ loc' = NoLoc
    /\ retval' = value

\* the method goes on to a register read of its own
Goto(label, newLoc, newLog) ==
    /\ pc' = label
    /\ result' = "none"
    /\ log' = newLog
    /\ todo' = << >>
    /\ stmtErr' = FALSE
    /\ loc' = newLoc
    /\ retval' = NoValue

\* the method goes on with the statements stmts
Continue(stmts, newLog) ==
    /\ pc' = "ops"
    /\ result' = "none"
    /\ log' = newLog
    /\ todo' = stmts
    /\ stmtErr' = FALSE
    /\ loc' = NoLoc
    /\ retval' = NoValue

\* the return code of a library call: ok (>= 0) or not (< 0)
Returns(ok) ==
    /\ ok \in (IF nFaults < MaxFaults THEN BOOLEAN ELSE {TRUE})
    /\ nFaults' = IF ok THEN nFaults ELSE nFaults + 1

Issued(c, ok) == [k |-> c.k, ch |-> c.ch, v |-> c.v, ok |-> ok]

RECURSIVE Flatten(_)
\* for the slip below: the library calls of a sequence of statements, in order
Flatten(stmts) == IF stmts = << >> THEN << >> ELSE Head(stmts) \o Flatten(Tail(stmts))

RECURSIVE ApplyAll(_, _)
\* for the slip below: the registers after all of calls
ApplyAll(r, calls) == IF calls = << >> THEN r ELSE ApplyAll(Apply(r, Head(calls)), Tail(calls))

\* slip: all remaining register operations of the call take effect as one
LibStep_allAtOnce ==
    /\ pc = "ops"
    /\ todo # << >>
    /\ \E ok \in BOOLEAN :
        /\ Returns(ok)
        /\ LET calls == Flatten(todo)
           IN  /\ reg' = IF ok THEN ApplyAll(reg, calls) ELSE reg
               /\ log' = log \o [i \in 1..Len(calls) |-> Issued(calls[i], ok)]
               /\ result' = IF ok THEN "ok" ELSE "TransportError"
    /\ todo' = << >>
    /\ stmtErr' = FALSE
    /\ pc' = "done"
    /\ UNCHANGED <<BASE_CLOCK, hostVars, baseclockReg, nEnv, retval, call, loc, snap, trail, nCalls>>

\* the next library call of the current statement; its return code is looked
\* at when the statement has made all its calls
LibStep ==
    /\ pc = "ops"
    /\ todo # << >>
    /\ \E ok \in BOOLEAN :
        /\ Returns(ok)
        /\ LET stmt == Head(todo)
               c    == Head(stmt)
               err  == stmtErr \/ ~ok
           IN  /\ reg' = IF ok THEN Apply(reg, c) ELSE reg
               /\ log' = Append(log, Issued(c, ok))
               /\ IF Len(stmt) > 1
                    THEN /\ todo' = << Tail(stmt) >> \o Tail(todo)
                         /\ stmtErr' = err
                         /\ UNCHANGED <<pc, result>>
                  ELSE IF err
                    THEN /\ todo' = << >>
                         /\ stmtErr' = FALSE
                         /\ pc' = "done"
                         /\ result' = "TransportError"
                  ELSE   /\ todo' = Tail(todo)
                         /\ stmtErr' = FALSE
                         /\ pc' = IF Tail(todo) = << >> THEN "done" ELSE "ops"
                         /\ result' = IF Tail(todo) = << >> THEN "ok" ELSE "none"
    /\ UNCHANGED <<BASE_CLOCK, hostVars, baseclockReg, nEnv, retval, call, loc, snap, trail, nCalls>>

BitSetterOps == {"setDirection", "setStepMode", "setPhaseMode"}

QueryOps == {"getStartSpeed", "getSollSpeed", "getAcceleration", "getStepsToDo",
             "getStepsHaveDone", "getDirection", "getStepMode", "getPhaseMode",
             "getRunMode", "isMotorRunning", "getLocalConfiguration"}

\* the scenario monitor after the call c has returned res and rv: a successful
\* initMotor, then start; the last bit-field setter and its value; the last
\* setRunMode and its value; the last updateSpeeds and its step count; a
\* successful resetStepsGlobal, which later queries leave in place; the last
\* successful query and its value
TrailAfter(tr, c, res, rv) ==
    IF res = "ok" /\ c.op = "initMotor" THEN << "initMotor", c.ch >>
    ELSE IF res = "ok" /\ c.op = "start" /\ tr = << "initMotor", c.ch >>
        THEN << "initMotor", "start", c.ch >>
    ELSE IF res = "ok" /\ c.op \in BitSetterOps
        THEN << c.op, c.ch, IF c.op = "setDirection" THEN c.a.direction
                            ELSE IF c.op = "setStepMode" THEN c.a.stepMode
                            ELSE c.a.phaseMode >>
    ELSE IF res = "ok" /\ c.op = "setRunMode" THEN << "setRunMode", c.ch, c.a.runMode >>
    ELSE IF res = "ok" /\ c.op = "updateSpeeds" THEN << "updateSpeeds", c.ch, c.a.steps >>
    ELSE IF res = "ok" /\ c.op = "resetStepsGlobal" THEN << "resetStepsGlobal" >>
    ELSE IF c.op \in QueryOps /\ tr = << "resetStepsGlobal" >> THEN tr
    ELSE IF res = "ok" /\ c.op \in QueryOps THEN << "query", c.op, c.ch, rv >>
    ELSE << >>

\* the scenario monitor after a step of the hardware or of another process:
\* the last query is now a query made before a change
TrailAfterEnv(tr) ==
    IF Len(tr) = 4 /\ tr[1] = "query" THEN << "changed", tr[2], tr[3], tr[4] >>
    ELSE << >>

\* control returns to the caller
Return ==
    /\ pc = "done"
    /\ pc' = "idle"
    /\ trail' = TrailAfter(trail, call, result, retval)
    /\ call' = [op |-> "none", ch |-> 0, a |-> NoArgs]
    /\ log' = << >>
    /\ result' = "none"
    /\ retval' = NoValue
    /\ snap' = reg
    /\ UNCHANGED <<reg, BASE_CLOCK, hostVars, baseclockReg, nEnv, loc, todo, stmtErr, nCalls, nFaults>>

----------------------------------------------------------------------------
(* Public methods *)

initMotor(channel, runMode, startSpeed, sollSpeed, acc_steps, steppsToDo, direction, stepMode, phaseMode) ==
    /\ Begin("initMotor", channel,
             [NoArgs EXCEPT !.runMode = runMode, !.startSpeed = startSpeed,
                            !.sollSpeed = sollSpeed, !.hasAcc = TRUE, !.steps = acc_steps,
                            !.steppsToDo = steppsToDo, !.direction = direction,
                            !.stepMode = stepMode, !.phaseMode = phaseMode])
    /\ \E ok \in BOOLEAN :
        /\ Returns(ok)
        /\ LET rd == << Issued(LibCall("get_local_config_reg", channel, 0), ok) >>
               pre_start == calculatePrescaler(BASE_CLOCK, startSpeed)
               pre_soll  == calculatePrescaler(BASE_CLOCK, sollSpeed)
               acc_raw   == calculateAccelerationFromSteps(pre_start, pre_soll, acc_steps)
           IN  IF ~ok THEN Finish("TransportError", rd)
               ELSE IF isMotorRunning(reg[channel].localConf) THEN Finish("IllegalState", rd)
               ELSE IF calculatePrescalerRaises(startSpeed) \/ calculatePrescalerRaises(sollSpeed)
                   THEN Finish("InvalidArgument", rd)
               ELSE IF calculateAccelerationFromStepsRaises(pre_start, pre_soll, acc_steps)
                   THEN Finish("InvalidArgument", rd)
               ELSE IF setRunModeRaises(runMode) THEN Finish("InvalidArgument", rd)
               ELSE Continue(initMotorWrites(channel, runMode, pre_start, pre_soll, acc_raw,
                                             steppsToDo, direction, stepMode, phaseMode), rd)
    /\ UNCHANGED <<reg, BASE_CLOCK, hostVars, baseclockReg, nEnv, trail>>

updateSpeeds(channel, startSpeed, sollSpeed, acceleration) ==
    /\ Begin("updateSpeeds", channel,
             [NoArgs EXCEPT !.startSpeed = startSpeed, !.sollSpeed = sollSpeed,
                            !.hasAcc = TRUE, !.steps = acceleration])
    /\ \E ok \in BOOLEAN :
        /\ Returns(ok)
        /\ LET rd == << Issued(LibCall("get_local_config_reg", channel, 0), ok) >>
               pre_start == calculatePrescaler(BASE_CLOCK, startSpeed)
               pre_soll  == calculatePrescaler(BASE_CLOCK, sollSpeed)
               acc_raw   == calculateAccelerationFromSteps(pre_start, pre_soll, acceleration)
           IN  IF ~ok THEN Finish("TransportError", rd)
               ELSE IF isMotorRunning(reg[channel].localConf) THEN Finish("IllegalState", rd)
               ELSE IF calculatePrescalerRaises(startSpeed) \/ calculatePrescalerRaises(sollSpeed)
                   THEN Finish("InvalidArgument", rd)
               ELSE IF calculateAccelerationFromStepsRaises(pre_start, pre_soll, acceleration)
                   THEN Finish("InvalidArgument", rd)
               ELSE Continue(updateSpeedsWrites(channel, pre_start, pre_soll, acc_raw), rd)
    /\ UNCHANGED <<reg, BASE_CLOCK, hostVars, baseclockReg, nEnv, trail>>

start(channel) ==
    /\ Begin("start", channel, NoArgs)
    /\ Continue(startWrites(channel), << >>)
    /\ UNCHANGED <<reg, BASE_CLOCK, hostVars, baseclockReg, nEnv, trail, nFaults>>

\* slip: the start bit is not checked
changeSollSpeedWhileRunning_unchecked(channel, sollSpeed, acceleration) ==
    /\ Begin("changeSollSpeedWhileRunning", channel,
             [NoArgs EXCEPT !.sollSpeed = sollSpeed, !.hasAcc = TRUE, !.steps = acceleration])
    /\ \E ok \in BOOLEAN :
        /\ Returns(ok)
        /\ LET rd == << Issued(LibCall("get_local_config_reg", channel, 0), ok) >>
           IN  IF ~ok THEN Finish("TransportError", rd)
               ELSE IF calculatePrescalerRaises(sollSpeed) THEN Finish("InvalidArgument", rd)
               ELSE Goto("change_getStartPrescaler",
                         [NoLoc EXCEPT !.pre_soll = calculatePrescaler(BASE_CLOCK, sollSpeed)], rd)
    /\ UNCHANGED <<reg, BASE_CLOCK, hostVars, baseclockReg, nEnv, trail>>

changeSollSpeedWhileRunning(channel, sollSpeed, acceleration) ==
    /\ Begin("changeSollSpeedWhileRunning", channel,
             [NoArgs EXCEPT !.sollSpeed = sollSpeed, !.hasAcc = TRUE, !.steps = acceleration])
    /\ \E ok \in BOOLEAN :
        /\ Returns(ok)
        /\ LET rd == << Issued(LibCall("get_local_config_reg", channel, 0), ok) >>
           IN  IF ~ok THEN Finish("TransportError", rd)
               ELSE IF ~isMotorRunning(reg[channel].localConf) THEN Finish("IllegalState", rd)
               ELSE IF calculatePrescalerRaises(sollSpeed) THEN Finish("InvalidArgument", rd)
               ELSE Goto("change_getStartPrescaler",
                         [NoLoc EXCEPT !.pre_soll = calculatePrescaler(BASE_CLOCK, sollSpeed)], rd)
    /\ UNCHANGED <<reg, BASE_CLOCK, hostVars, baseclockReg, nEnv, trail>>

\* pre_start = self._getStartPrescaler(channel), and the rest of the method
changeGetStartPrescaler ==
    /\ pc = "change_getStartPrescaler"
    /\ \E ok \in BOOLEAN :
        /\ Returns(ok)
        /\ LET rd == Append(log, Issued(LibCall("get_prescaler_start", call.ch, 0), ok))
               pre_start == reg[call.ch].prescalerStart
               acc_raw == calculateAccelerationFromSteps(pre_start, loc.pre_soll, call.a.steps)
           IN  IF ~ok THEN Finish("TransportError", rd)
               ELSE IF calculateAccelerationFromStepsRaises(pre_start, loc.pre_soll, call.a.steps)
                   THEN Finish("InvalidArgument", rd)
               ELSE Continue(changeSollSpeedWrites(call.ch, acc_raw, loc.pre_soll), rd)
    /\ UNCHANGED <<reg, BASE_CLOCK, hostVars, baseclockReg, nEnv, call, snap, trail, nCalls>>

\* slip: the run mode is not looked at
stop_anyRunMode(channel, hasAcc, acceleration) ==
    /\ Begin("stop", channel, [NoArgs EXCEPT !.hasAcc = hasAcc, !.steps = acceleration])
    /\ \E ok \in BOOLEAN :
        /\ Returns(ok)
        /\ LET rd == << Issued(LibCall("get_local_config_reg", channel, 0), ok) >>
           IN  IF ~ok THEN Finish("TransportError", rd)
               ELSE IF hasAcc THEN Goto("stop_getStartPrescaler", NoLoc, rd)
               ELSE Continue(stopWrites(channel), rd)
    /\ UNCHANGED <<reg, BASE_CLOCK, hostVars, baseclockReg, nEnv, trail>>

stop(channel, hasAcc, acceleration) ==
    /\ Begin("stop", channel, [NoArgs EXCEPT !.hasAcc = hasAcc, !.steps = acceleration])
    /\ \E ok \in BOOLEAN :
        /\ Returns(ok)
        /\ LET rd == << Issued(LibCall("get_local_config_reg", channel, 0), ok) >>
               mode == getRunMode(reg[channel].localConf)
           IN  IF ~ok THEN Finish("TransportError", rd)
               ELSE IF hasAcc /\ mode = FIXED_SPEED
                   THEN Goto("stop_getStartPrescaler", NoLoc, rd)
               ELSE Continue(stopWrites(channel), rd)
    /\ UNCHANGED <<reg, BASE_CLOCK, hostVars, baseclockReg, nEnv, trail>>

\* pre_start = self._getStartPrescaler(channel)
stopGetStartPrescaler ==
    /\ pc = "stop_getStartPrescaler"
    /\ \E ok \in BOOLEAN :
        /\ Returns(ok)
        /\ LET rd == Append(log, Issued(LibCall("get_prescaler_start", call.ch, 0), ok))
           IN  IF ~ok THEN Finish("TransportError", rd)
               ELSE Goto("stop_getSollPrescaler",
                         [NoLoc EXCEPT !.pre_start = reg[call.ch].prescalerStart], rd)
    /\ UNCHANGED <<reg, BASE_CLOCK, hostVars, baseclockReg, nEnv, call, snap, trail, nCalls>>

\* pre_soll = self._getSollPrescaler(channel), and the rest of the method
stopGetSollPrescaler ==
    /\ pc = "stop_getSollPrescaler"
    /\ \E ok \in BOOLEAN :
        /\ Returns(ok)
        /\ LET rd == Append(log, Issued(LibCall("get_prescaler_top", call.ch, 0), ok))
               pre_soll == reg[call.ch].prescalerTop
               acc_raw == calculateAccelerationFromSteps(loc.pre_start, pre_soll, call.a.steps)
           IN  IF ~ok THEN Finish("TransportError", rd)
               ELSE IF calculateAccelerationFromStepsRaises(loc.pre_start, pre_soll, call.a.steps)
                   THEN Finish("InvalidArgument", rd)
               ELSE Continue(stopWithAccelerationWrites(call.ch, acc_raw), rd)
    /\ UNCHANGED <<reg, BASE_CLOCK, hostVars, baseclockReg, nEnv, call, snap, trail, nCalls>>

setRunModeCall(channel, runMode) ==
    /\ Begin("setRunMode", channel, [NoArgs EXCEPT !.runMode = runMode])
    /\ IF setRunModeRaises(runMode) THEN Finish("InvalidArgument", << >>)
       ELSE Continue(<< setRunMode(channel, runMode) >>, << >>)
    /\ UNCHANGED <<reg, BASE_CLOCK, hostVars, baseclockReg, nEnv, trail, nFaults>>

setDirectionCall(channel, direction) ==
    /\ Begin("setDirection", channel, [NoArgs EXCEPT !.direction = direction])
    /\ Continue(<< setDirection(channel, direction) >>, << >>)
    /\ UNCHANGED <<reg, BASE_CLOCK, hostVars, baseclockReg, nEnv, trail, nFaults>>

setStepModeCall(channel, stepMode) ==
    /\ Begin("setStepMode", channel, [NoArgs EXCEPT !.stepMode = stepMode])
    /\ Continue(<< setStepMode(channel, stepMode) >>, << >>)
    /\ UNCHANGED <<reg, BASE_CLOCK, hostVars, baseclockReg, nEnv, trail, nFaults>>

setPhaseModeCall(channel, phaseMode) ==
    /\ Begin("setPhaseMode", channel, [NoArgs EXCEPT !.phaseMode = phaseMode])
    /\ Continue(<< setPhaseMode(channel, phaseMode) >>, << >>)
    /\ UNCHANGED <<reg, BASE_CLOCK, hostVars, baseclockReg, nEnv, trail, nFaults>>

resetStepsGlobal ==
    /\ Begin("resetStepsGlobal", 0, NoArgs)
    /\ Continue(<< << LibCall("global_step_reset", 0, 0) >> >>, << >>)
    /\ UNCHANGED <<reg, BASE_CLOCK, hostVars, baseclockReg, nEnv, trail, nFaults>>

\* slip: the device-wide reset is used for one channel
resetStepsLocal_globalReset(channel) ==
    /\ Begin("resetStepsLocal", channel, NoArgs)
    /\ Continue(<< << LibCall("global_step_reset", 0, 0) >> >>, << >>)
    /\ UNCHANGED <<reg, BASE_CLOCK, hostVars, baseclockReg, nEnv, trail, nFaults>>

resetStepsLocal(channel) ==
    /\ Begin("resetStepsLocal", channel, NoArgs)
    /\ Continue(<< << LibCall("set_local_config_reg_bits_atomic", channel, Mask(RESET_STEPS)) >> >>,
                << >>)
    /\ UNCHANGED <<reg, BASE_CLOCK, hostVars, baseclockReg, nEnv, trail, nFaults>>

\* a query that makes one library read and derives its value from what it
\* read: error < 0 raises, so does a failing conversion
ReadQuery(op, channel, kind, raises, value) ==
    /\ Begin(op, channel, NoArgs)
    /\ \E ok \in BOOLEAN :
        /\ Returns(ok)
        /\ LET rd == << Issued(LibCall(kind, channel, 0), ok) >>
           IN  IF ~ok THEN Finish("TransportError", rd)
               ELSE IF raises THEN Finish("CalculationFailed", rd)
               ELSE Returning(value, rd)
    /\ UNCHANGED <<reg, BASE_CLOCK, hostVars, baseclockReg, nEnv, trail>>

getLocalConfiguration(channel) ==
    ReadQuery("getLocalConfiguration", channel, "get_local_config_reg", FALSE,
              reg[channel].localConf)

getDirectionCall(channel) ==
    ReadQuery("getDirection", channel, "get_local_config_reg", FALSE,
              getDirection(reg[channel].localConf))

getStepModeCall(channel) ==
    ReadQuery("getStepMode", channel, "get_local_config_reg", FALSE,
              getStepMode(reg[channel].localConf))

getPhaseModeCall(channel) ==
    ReadQuery("getPhaseMode", channel, "get_local_config_reg", FALSE,
              getPhaseMode(reg[channel].localConf))

getRunModeCall(channel) ==
    ReadQuery("getRunMode", channel, "get_local_config_reg", FALSE,
              getRunMode(reg[channel].localConf))

isMotorRunningCall(channel) ==
    ReadQuery("isMotorRunning", channel, "get_local_config_reg", FALSE,
              isMotorRunning(reg[channel].localConf))

\* slip: the value of the last getStepsToDo on the channel is kept and handed
\* out again
getStepsToDo_cached(channel) ==
    ReadQuery("getStepsToDo", channel, "get_steps_to_do", FALSE,
              IF Len(trail) = 4 /\ trail[2] = "getStepsToDo" /\ trail[3] = channel
                  THEN trail[4] ELSE reg[channel].stepsToDo)

getStepsToDo(channel) ==
    ReadQuery("getStepsToDo", channel, "get_steps_to_do", FALSE, reg[channel].stepsToDo)

getStepsHaveDone(channel) ==
    ReadQuery("getStepsHaveDone", channel, "get_steps_have_done", FALSE,
              reg[channel].stepsHaveDone)

getStartSpeed(channel) ==
    ReadQuery("getStartSpeed", channel, "get_prescaler_start",
              calculateSpeedRaises(reg[channel].prescalerStart),
              calculateSpeed(BASE_CLOCK, reg[channel].prescalerStart))

getSollSpeed(channel) ==
    ReadQuery("getSollSpeed", channel, "get_prescaler_top",
              calculateSpeedRaises(reg[channel].prescalerTop),
              calculateSpeed(BASE_CLOCK, reg[channel].prescalerTop))

\* pre_start = self._getStartPrescaler(channel)
getAcceleration(channel) ==
    /\ Begin("getAcceleration", channel, NoArgs)
    /\ \E ok \in BOOLEAN :
        /\ Returns(ok)
        /\ LET rd == << Issued(LibCall("get_prescaler_start", channel, 0), ok) >>
           IN  IF ~ok THEN Finish("TransportError", rd)
               ELSE Goto("getAcceleration_getSollPrescaler",
                         [NoLoc EXCEPT !.pre_start = reg[channel].prescalerStart], rd)
    /\ UNCHANGED <<reg, BASE_CLOCK, hostVars, baseclockReg, nEnv, trail>>

\* pre_soll = self._getSollPrescaler(channel)
getAccelerationGetSollPrescaler ==
    /\ pc = "getAcceleration_getSollPrescaler"
    /\ \E ok \in BOOLEAN :
        /\ Returns(ok)
        /\ LET rd == Append(log, Issued(LibCall("get_prescaler_top", call.ch, 0), ok))
           IN  IF ~ok THEN Finish("TransportError", rd)
               ELSE Goto("getAcceleration_getAcceleration",
                         [loc EXCEPT !.pre_soll = reg[call.ch].prescalerTop], rd)
    /\ UNCHANGED <<reg, BASE_CLOCK, hostVars, baseclockReg, nEnv, call, snap, trail, nCalls>>

\* acc = self._getAcceleration(channel), and the conversion to steps
getAccelerationGetAcceleration ==
    /\ pc = "getAcceleration_getAcceleration"
    /\ \E ok \in BOOLEAN :
        /\ Returns(ok)
        /\ LET rd == Append(log, Issued(LibCall("get_acceleration", call.ch, 0), ok))
               acc == reg[call.ch].acceleration
           IN  IF ~ok THEN Finish("TransportError", rd)
               ELSE IF calculateStepsFromAccelerationRaises(loc.pre_start, loc.pre_soll, acc)
                   THEN Finish("CalculationFailed", rd)
               ELSE Returning(calculateStepsFromAcceleration(loc.pre_start, loc.pre_soll, acc),
                              rd)
    /\ UNCHANGED <<reg, BASE_CLOCK, hostVars, baseclockReg, nEnv, call, snap, trail, nCalls>>

\* slip: the base clock is read from the hardware again
getBaseclock_reread ==
    /\ Begin("getBaseclock", 0, NoArgs)
    /\ Returning(baseclockReg, << >>)
    /\ UNCHANGED <<reg, BASE_CLOCK, hostVars, baseclockReg, nEnv, trail, nFaults>>

getBaseclock ==
    /\ Begin("getBaseclock", 0, NoArgs)
    /\ Returning(BASE_CLOCK, << >>)
    /\ UNCHANGED <<reg, BASE_CLOCK, hostVars, baseclockReg, nEnv, trail, nFaults>>

\* __init__: self._BASE_CLOCK = self._getBaseclock(); when the read fails the
\* constructor raises and there is no object
FlinkStepperMotor ==
    /\ pc = "new"
    /\ \E ok \in BOOLEAN :
        /\ Returns(ok)
        /\ log' = << Issued(LibCall("get_baseclock", 0, 0), ok) >>
        /\ pc' = IF ok THEN "done" ELSE "failed"
        /\ result' = IF ok THEN "ok" ELSE "TransportError"
        /\ BASE_CLOCK' = IF ok THEN baseclockReg ELSE BASE_CLOCK
    /\ call' = [op |-> "__init__", ch |-> 0, a |-> NoArgs]
    /\ nCalls' = nCalls + 1
    /\ UNCHANGED <<reg, hostVars, baseclockReg, nEnv, loc, todo, stmtErr, snap, trail, retval>>

----------------------------------------------------------------------------

Next ==
    \/ \E ch \in Channels, m \in RunModeArgs, s \in SpeedArgs, std \in StepsToDoArgs,
          b \in BitFieldArgs :
            initMotor(ch, m, s[1], s[2], s[3], std, b[1], b[2], b[3])
    \/ \E ch \in Channels, c \in ChangeArgs :
            changeSollSpeedWhileRunning(ch, c[1], c[2])
    \/ changeGetStartPrescaler
    \/ \E ch \in Channels : start(ch)
    \/ \E ch \in Channels, n \in StopStepArgs : stop(ch, TRUE, n)
    \/ \E ch \in Channels : stop(ch, FALSE, 0)
    \/ stopGetStartPrescaler
    \/ stopGetSollPrescaler
    \/ \E ch \in Channels, m \in RunModeArgs : setRunModeCall(ch, m)
    \/ LibStep
    \/ Return

Spec == Init /\ [][Next]_vars

----------------------------------------------------------------------------
(* The speed registers: every channel starts configured, as initMotor with
   the values 100, 1000, 50, 200 of the stepping example leaves it *)

ConfiguredChannel ==
    LET pre_start == calculatePrescaler(1000000, 100)
        pre_soll  == calculatePrescaler(1000000, 1000)
    IN  [localConf |-> Mask(DIRECTION) + Mask(STEP_MODE) + Mask(PHASE_MODE) + Mask(RUN_MODE_0),
         prescalerStart |-> pre_start, prescalerTop |-> pre_soll,
         acceleration |-> calculateAccelerationFromSteps(pre_start, pre_soll, 50),
         stepsToDo |-> 200, stepsHaveDone |-> 0]

InitSpeeds ==
    /\ reg = [ch \in Channels |-> ConfiguredChannel]
    /\ BASE_CLOCK = 1000000
    /\ pc = "idle"
    /\ call = [op |-> "none", ch |-> 0, a |-> NoArgs]
    /\ loc = NoLoc
    /\ todo = << >>
    /\ stmtErr = FALSE
    /\ log = << >>
    /\ result = "none"
    /\ snap = reg
    /\ trail = << >>
    /\ nCalls = 0
    /\ nFaults = 0
    /\ retval = NoValue
    /\ baseclockReg = BASE_CLOCK
    /\ nEnv = 0
    /\ HostInit

NextSpeeds ==
    \/ \E ch \in Channels, m \in {STEPPING, FIXED_SPEED}, s \in UpdateArgs, std \in StepsToDoArgs,
          b \in BitFieldArgs :
            initMotor(ch, m, s[1], s[2], s[3], std, b[1], b[2], b[3])
    \/ \E ch \in Channels, s \in UpdateArgs : updateSpeeds(ch, s[1], s[2], s[3])
    \/ \E ch \in Channels, c \in ChangeArgs :
            changeSollSpeedWhileRunning(ch, c[1], c[2])
    \/ changeGetStartPrescaler
    \/ \E ch \in Channels : start(ch)
    \/ \E ch \in Channels, n \in StopStepArgs : stop(ch, TRUE, n)
    \/ stopGetStartPrescaler
    \/ stopGetSollPrescaler
    \/ LibStep
    \/ Return

SpecSpeeds == InitSpeeds /\ [][NextSpeeds]_vars

----------------------------------------------------------------------------
(* The prescaler conversion on its own: a base clock and a speed are drawn,
   and _calculatePrescaler is applied to them *)

\* speeds run from -MaxSpeed to MaxSpeed
MaxSpeed == 30

\* base clocks below and above the speeds
ConvBaseclocks == {1, 7, 12, 1000000}

InitConv ==
    /\ BASE_CLOCK \in ConvBaseclocks
    /\ \E speed \in (-MaxSpeed)..MaxSpeed :
          call = [op |-> "_calculatePrescaler", ch |-> 0,
                  a |-> [NoArgs EXCEPT !.startSpeed = speed]]
    /\ pc = "conv"
    /\ reg = [ch \in Channels |-> InitChannel]
    /\ loc = NoLoc
    /\ todo = << >>
    /\ stmtErr = FALSE
    /\ log = << >>
    /\ result = "none"
    /\ snap = reg
    /\ trail = << >>
    /\ nCalls = 0
    /\ nFaults = 0
    /\ retval = NoValue
    /\ baseclockReg = BASE_CLOCK
    /\ nEnv = 0
    /\ HostInit

calculatePrescalerCall ==
    /\ pc = "conv"
    /\ IF calculatePrescalerRaises(call.a.startSpeed)
          THEN Finish("InvalidArgument", << >>)
          ELSE Returning(calculatePrescaler(BASE_CLOCK, call.a.startSpeed), << >>)
    /\ UNCHANGED <<reg, BASE_CLOCK, hostVars, baseclockReg, nEnv, call, snap, trail, nCalls, nFaults>>

SpecConv == InitConv /\ [][calculatePrescalerCall]_vars

----------------------------------------------------------------------------
(* The queries and the bit-field setters, with the hardware and other
   processes changing registers between two calls of this controller *)

\* steps of the hardware and of other processes per behaviour
MaxEnv == 1

\* a channel that runs: counter-clockwise would be bit 0 clear; here
\* clockwise, half steps, two-phase, stepping, started, two steps taken
RunningChannel ==
    [ConfiguredChannel EXCEPT !.localConf = @ - Mask(STEP_MODE) + Mask(START),
                              !.stepsHaveDone = 2]

\* values the base clock register of the hardware can hold
BaseclockValues == {1000000, 500000}

\* <<startSpeed, sollSpeed, acceleration>> of updateSpeeds
RetuneArgs == { <<200, 2000, 50>> }

\* register writes of another process that uses the same subdevice
OtherWrites ==
    { LibCall("set_steps_to_do", ch, 7) : ch \in Channels } \cup
    { LibCall("set_local_config_reg_bits_atomic", ch, Mask(DIRECTION) + Mask(RUN_MODE_1)) :
        ch \in Channels }

InitQuery ==
    /\ reg = [ch \in Channels |-> [RunningChannel EXCEPT !.stepsHaveDone = @ + ch]]
    /\ BASE_CLOCK = 0
    /\ baseclockReg = 1000000
    /\ pc = "new"
    /\ call = [op |-> "none", ch |-> 0, a |-> NoArgs]
    /\ loc = NoLoc
    /\ todo = << >>
    /\ stmtErr = FALSE
    /\ log = << >>
    /\ result = "none"
    /\ snap = reg
    /\ trail = << >>
    /\ nCalls = 0
    /\ nFaults = 0
    /\ retval = NoValue
    /\ nEnv = 0
    /\ HostInit

\* a step between two calls that is not this controller's
Env(newReg, newBaseclock) ==
    /\ pc = "idle"
    /\ nEnv < MaxEnv
    /\ nEnv' = nEnv + 1
    /\ reg' = newReg
    /\ snap' = newReg
    /\ baseclockReg' = newBaseclock
    /\ trail' = TrailAfterEnv(trail)
    /\ UNCHANGED <<BASE_CLOCK, hostVars, pc, call, loc, todo, stmtErr, log, result, nCalls, nFaults,
                   retval>>

\* the motor of a running channel takes a step
HwStep(ch) ==
    /\ isMotorRunning(reg[ch].localConf)
    /\ Env([reg EXCEPT ![ch].stepsHaveDone = @ + 1], baseclockReg)

OtherProcess(c) == Env(Apply(reg, c), baseclockReg)

\* the base clock register of the hardware comes to hold another value
BaseclockChange(v) ==
    /\ v # baseclockReg
    /\ Env(reg, v)

NextQuery ==
    \/ FlinkStepperMotor
    \/ \E ch \in Channels, d \in {CLOCKWISE, COUNTER_CLOCKWISE} : setDirectionCall(ch, d)
    \/ \E ch \in Channels, m \in {FULL_STEPS, HALF_STEPS} : setStepModeCall(ch, m)
    \/ \E ch \in Channels, m \in {TWO_PHASE, ONE_PHASE} : setPhaseModeCall(ch, m)
    \/ \E ch \in Channels : getLocalConfiguration(ch)
    \/ \E ch \in Channels : getDirectionCall(ch)
    \/ \E ch \in Channels : getStepModeCall(ch)
    \/ \E ch \in Channels : getPhaseModeCall(ch)
    \/ \E ch \in Channels : getRunModeCall(ch)
    \/ \E ch \in Channels : isMotorRunningCall(ch)
    \/ \E ch \in Channels : getStepsToDo(ch)
    \/ \E ch \in Channels : getStepsHaveDone(ch)
    \/ \E ch \in Channels : getStartSpeed(ch)
    \/ \E ch \in Channels : getSollSpeed(ch)
    \/ \E ch \in Channels : getAcceleration(ch)
    \/ getAccelerationGetSollPrescaler
    \/ getAccelerationGetAcceleration
    \/ getBaseclock
    \/ resetStepsGlobal
    \/ \E ch \in Channels, s \in RetuneArgs : updateSpeeds(ch, s[1], s[2], s[3])
    \/ \E ch \in Channels : HwStep(ch)
    \/ \E c \in OtherWrites : OtherProcess(c)
    \/ \E v \in BaseclockValues : BaseclockChange(v)
    \/ LibStep
    \/ Return

SpecQuery == InitQuery /\ [][NextQuery]_vars

----------------------------------------------------------------------------
(* Calls with a channel number the subdevice does not have.  The methods
   hand the channel to the library as it is; the library call then returns
   < 0, or it succeeds on whatever the hardware keeps at that offset, which
   is one more record of registers here *)

\* the subdevice has the channels of Channels; this one is past the last
OutOfRange == {2}

InitRange ==
    /\ reg = [ch \in Channels \cup OutOfRange |-> InitChannel]
    /\ BASE_CLOCK = 1000000
    /\ pc = "idle"
    /\ call = [op |-> "none", ch |-> 0, a |-> NoArgs]
    /\ loc = NoLoc
    /\ todo = << >>
    /\ stmtErr = FALSE
    /\ log = << >>
    /\ result = "none"
    /\ snap = reg
    /\ trail = << >>
    /\ nCalls = 0
    /\ nFaults = 0
    /\ retval = NoValue
    /\ baseclockReg = BASE_CLOCK
    /\ nEnv = 0
    /\ HostInit

NextRange ==
    \/ \E ch \in Channels \cup OutOfRange, std \in StepsToDoArgs, b \in BitFieldArgs :
            initMotor(ch, STEPPING, 100, 1000, 50, std, b[1], b[2], b[3])
    \/ \E ch \in Channels \cup OutOfRange : start(ch)
    \/ \E ch \in Channels \cup OutOfRange : stop(ch, FALSE, 0)
    \/ \E ch \in Channels \cup OutOfRange, m \in {DISABLED, FIXED_SPEED} : setRunModeCall(ch, m)
    \/ \E ch \in Channels \cup OutOfRange : setDirectionCall(ch, COUNTER_CLOCKWISE)
    \/ \E ch \in Channels \cup OutOfRange : getStepsToDo(ch)
    \/ \E ch \in Channels \cup OutOfRange : isMotorRunningCall(ch)
    \/ LibStep
    \/ Return

SpecRange == InitRange /\ [][NextRange]_vars

----------------------------------------------------------------------------
(* The run-mode field: channel 0 starts with any content of bits 3-4, binary
   11 included (a setRunMode whose second atomic operation failed leaves
   it), started or stopped *)

\* a configured channel with the run-mode field and the start bit given
RunModeChannel(field, started) ==
    [ConfiguredChannel EXCEPT
        !.localConf = Mask(DIRECTION) + Mask(PHASE_MODE) + field * Mask(RUN_MODE_0)
                        + started * Mask(START)]

InitRunMode ==
    /\ \E field \in 0..3, started \in 0..1 :
          reg = [ch \in Channels |-> IF ch = 0 THEN RunModeChannel(field, started)
                                               ELSE ConfiguredChannel]
    /\ BASE_CLOCK = 1000000
    /\ pc = "idle"
    /\ call = [op |-> "none", ch |-> 0, a |-> NoArgs]
    /\ loc = NoLoc
    /\ todo = << >>
    /\ stmtErr = FALSE
    /\ log = << >>
    /\ result = "none"
    /\ snap = reg
    /\ trail = << >>
    /\ nCalls = 0
    /\ nFaults = 0
    /\ retval = NoValue
    /\ baseclockReg = BASE_CLOCK
    /\ nEnv = 0
    /\ HostInit

NextRunMode ==
    \/ \E ch \in Channels, m \in RunModeArgs : setRunModeCall(ch, m)
    \/ \E ch \in Channels : getRunModeCall(ch)
    \/ LibStep
    \/ Return

SpecRunMode == InitRunMode /\ [][NextRunMode]_vars

----------------------------------------------------------------------------
(* The acceleration conversions: two prescalers and a step count are drawn
   and converted to a raw acceleration and back; then updateSpeeds and
   getAcceleration do the same through the registers *)

\* prescalers run from 0 to MaxPrescaler
MaxPrescaler == 12

\* step counts run from 0 to MaxSteps
MaxSteps == 14

\* <<startSpeed, sollSpeed, acceleration>> of updateSpeeds: a step count that
\* divides the prescaler difference 9000, one that does not, one above it;
\* then a soll speed below and one equal to the start speed
AccelArgs == { <<100, 1000, 50>>, <<100, 1000, 7000>>, <<100, 1000, 20000>>,
               <<100, 50, 50>>, <<100, 100, 50>> }

InitAccel ==
    /\ \E ps \in 0..MaxPrescaler, pl \in 0..MaxPrescaler, n \in 0..MaxSteps :
          call = [op |-> "_calculateStepsFromAcceleration", ch |-> 0,
                  a |-> [NoArgs EXCEPT !.prescaler_start = ps, !.prescaler_soll = pl,
                                       !.steps = n]]
    /\ pc = "conv"
    /\ reg = [ch \in Channels |-> ConfiguredChannel]
    /\ BASE_CLOCK = 1000000
    /\ loc = NoLoc
    /\ todo = << >>
    /\ stmtErr = FALSE
    /\ log = << >>
    /\ result = "none"
    /\ snap = reg
    /\ trail = << >>
    /\ nCalls = 0
    /\ nFaults = 0
    /\ retval = NoValue
    /\ baseclockReg = BASE_CLOCK
    /\ nEnv = 0
    /\ HostInit

\* _calculateStepsFromAcceleration applied to the result of
\* _calculateAccelerationFromSteps, with the same prescalers
accelerationRoundTrip ==
    /\ pc = "conv"
    /\ LET ps  == call.a.prescaler_start
           pl  == call.a.prescaler_soll
           acc == calculateAccelerationFromSteps(ps, pl, call.a.steps)
       IN  IF calculateAccelerationFromStepsRaises(ps, pl, call.a.steps)
              THEN Finish("InvalidArgument", << >>)
           ELSE IF calculateStepsFromAccelerationRaises(ps, pl, acc)
              THEN Finish("InvalidArgument", << >>)
           ELSE Returning(calculateStepsFromAcceleration(ps, pl, acc), << >>)
    /\ UNCHANGED <<reg, BASE_CLOCK, hostVars, baseclockReg, nEnv, call, snap, trail, nCalls, nFaults>>

NextAccel ==
    \/ accelerationRoundTrip
    \/ \E ch \in Channels, s \in AccelArgs : updateSpeeds(ch, s[1], s[2], s[3])
    \/ \E ch \in Channels : getAcceleration(ch)
    \/ getAccelerationGetSollPrescaler
    \/ getAccelerationGetAcceleration
    \/ LibStep
    \/ Return

SpecAccel == InitAccel /\ [][NextAccel]_vars

----------------------------------------------------------------------------
(* Interleaving: the hardware and other processes act on the registers
   between two register accesses of a call of this controller.  Here snap
   follows them: it holds the registers as they would be had the call in
   flight done nothing *)

\* controller calls per behaviour when other actors interleave
MaxRaceCalls == 2

\* the register operation c of the hardware or of another process lands
\* while a call of this controller is in flight
Interleave(c) ==
    /\ pc \notin {"idle", "done", "new", "conv", "failed"}
    /\ nEnv < MaxEnv
    /\ nEnv' = nEnv + 1
    /\ reg' = Apply(reg, c)
    /\ snap' = Apply(snap, c)
    /\ trail' = << "during", call.op >>
    /\ UNCHANGED <<BASE_CLOCK, hostVars, baseclockReg, pc, call, loc, todo, stmtErr, log, result, nCalls,
                   nFaults, retval>>

\* the hardware clears the start bit of a running channel: stepping is
\* complete
HwStepsCompleted(ch) ==
    /\ isMotorRunning(reg[ch].localConf)
    /\ Interleave(LibCall("reset_local_config_reg_bits_atomic", ch, Mask(START)))

\* atomic bit operations of another process on the channel ch
OtherBitOps(ch) ==
    { LibCall("set_local_config_reg_bits_atomic", ch, Mask(DIRECTION) + Mask(RUN_MODE_1)),
      LibCall("reset_local_config_reg_bits_atomic", ch, Mask(STEP_MODE) + Mask(PHASE_MODE)) }

\* a channel in fixed-speed mode that runs: clockwise, full steps, two-phase
FixedSpeedChannel ==
    [ConfiguredChannel EXCEPT !.localConf = @ - Mask(RUN_MODE_0) + Mask(RUN_MODE_1) + Mask(START),
                              !.stepsHaveDone = 2]

InitRace ==
    /\ reg = [ch \in Channels |-> IF ch = 0 THEN FixedSpeedChannel ELSE RunningChannel]
    /\ BASE_CLOCK = 1000000
    /\ pc = "idle"
    /\ call = [op |-> "none", ch |-> 0, a |-> NoArgs]
    /\ loc = NoLoc
    /\ todo = << >>
    /\ stmtErr = FALSE
    /\ log = << >>
    /\ result = "none"
    /\ snap = reg
    /\ trail = << >>
    /\ nCalls = 0
    /\ nFaults = 0
    /\ retval = NoValue
    /\ baseclockReg = BASE_CLOCK
    /\ nEnv = 0
    /\ HostInit

\* the channels a further call can be made on: none once MaxRaceCalls calls
\* have begun
RaceChannels == IF nCalls < MaxRaceCalls THEN Channels ELSE {}

NextRace ==
    \/ \E ch \in RaceChannels, d \in {CLOCKWISE, COUNTER_CLOCKWISE} : setDirectionCall(ch, d)
    \/ \E ch \in RaceChannels, m \in {FULL_STEPS, HALF_STEPS} : setStepModeCall(ch, m)
    \/ \E ch \in RaceChannels, m \in {TWO_PHASE, ONE_PHASE} : setPhaseModeCall(ch, m)
    \/ \E ch \in RaceChannels, m \in RunModeArgs : setRunModeCall(ch, m)
    \/ \E ch \in RaceChannels : resetStepsLocal(ch)
    \/ \E ch \in RaceChannels : start(ch)
    \/ \E ch \in RaceChannels : stop(ch, TRUE, 50)
    \/ \E ch \in RaceChannels : stop(ch, FALSE, 0)
    \/ stopGetStartPrescaler
    \/ stopGetSollPrescaler
    \/ HwStepsCompleted(call.ch)
    \/ \E c \in OtherBitOps(call.ch) : Interleave(c)
    \/ LibStep
    \/ Return

SpecRace == InitRace /\ [][NextRace]_vars

----------------------------------------------------------------------------
(* The configuring methods with other actors in between: channel 0 runs,
   channel 1 is stopped; the hardware stops a motor, another process starts
   or stops one, or reads the registers of the channel, between two register
   accesses of initMotor, updateSpeeds or changeSollSpeedWhileRunning *)

\* <<startSpeed, sollSpeed, acc_steps>>: prescalers 5000 and 500 and raw
\* acceleration 90 where the channel holds 10000, 1000 and 180
ReconfigureArgs == { <<200, 2000, 50>> }

InitGuard ==
    /\ reg = [ch \in Channels |-> IF ch = 0 THEN RunningChannel ELSE ConfiguredChannel]
    /\ BASE_CLOCK = 1000000
    /\ pc = "idle"
    /\ call = [op |-> "none", ch |-> 0, a |-> NoArgs]
    /\ loc = NoLoc
    /\ todo = << >>
    /\ stmtErr = FALSE
    /\ log = << >>
    /\ result = "none"
    /\ snap = reg
    /\ trail = << >>
    /\ nCalls = 0
    /\ nFaults = 0
    /\ retval = NoValue
    /\ baseclockReg = BASE_CLOCK
    /\ nEnv = 0
    /\ HostInit

\* another process starts or stops the motor of the channel
OtherStartStop(ch) ==
    \/ Interleave(LibCall("set_local_config_reg_bits_atomic", ch, Mask(START)))
    \/ Interleave(LibCall("reset_local_config_reg_bits_atomic", ch, Mask(START)))

\* another process reads the run mode, the prescalers and the acceleration
\* of the channel while a call of this controller is in flight; the monitor
\* keeps what it read unless a register operation has landed during the call
OtherReader(ch) ==
    /\ pc \notin {"idle", "done", "new", "conv", "failed"}
    /\ nEnv < MaxEnv
    /\ nEnv' = nEnv + 1
    /\ trail' = IF trail = << "during", call.op >> THEN trail
                 ELSE << "observed", ch, getRunMode(reg[ch].localConf), reg[ch].prescalerStart,
                         reg[ch].prescalerTop, reg[ch].acceleration >>
    /\ UNCHANGED <<reg, snap, BASE_CLOCK, hostVars, baseclockReg, pc, call, loc, todo, stmtErr, log,
                   result, nCalls, nFaults, retval>>

NextGuard ==
    \/ \E ch \in RaceChannels, s \in ReconfigureArgs, std \in StepsToDoArgs, b \in BitFieldArgs :
            initMotor(ch, FIXED_SPEED, s[1], s[2], s[3], std, b[1], b[2], b[3])
    \/ \E ch \in RaceChannels, s \in ReconfigureArgs : updateSpeeds(ch, s[1], s[2], s[3])
    \/ \E ch \in RaceChannels, s \in ReconfigureArgs :
            changeSollSpeedWhileRunning(ch, s[2], s[3])
    \/ changeGetStartPrescaler
    \/ HwStepsCompleted(call.ch)
    \/ OtherStartStop(call.ch)
    \/ OtherReader(call.ch)
    \/ LibStep
    \/ Return

SpecGuard == InitGuard /\ [][NextGuard]_vars

----------------------------------------------------------------------------
(* Vocabulary of the properties *)

\* the write and atomic set/reset calls among the library calls issued
Writes(l) == SelectSeq(l, LAMBDA e : e.k \in WriteKinds)

AllReturnedOk(l) == \A i \in 1..Len(l) : l[i].ok

Raised == {"IllegalState", "InvalidArgument", "TransportError"}

\* a call of op has run to its end (returned or raised)
Done(op) == pc = "done" /\ call.op = op

StartBit(r, ch) == BitOf(r[ch].localConf, START)

ValidInitArgs(a) ==
    /\ a.runMode # RESERVED
    /\ a.startSpeed > 0
    /\ a.sollSpeed > 0
    /\ a.steps >= 1

----------------------------------------------------------------------------
(* C1: initMotor on a channel whose start bit is 1 raises, issues no write
   and no atomic set/reset, and leaves every register of every channel as
   it was. *)
C1_InitMotorWhileRunningRejected ==
    (call.op = "initMotor" /\ pc # "idle" /\ StartBit(snap, call.ch) = 1)
        => /\ pc = "done"
           /\ result \in Raised
           /\ Writes(log) = << >>
           /\ reg = snap

C1_Witness ==
    /\ Done("initMotor")
    /\ StartBit(snap, call.ch) = 1
    /\ result = "IllegalState"
    /\ ValidInitArgs(call.a)

(* C2: on a channel whose start bit is 0, initMotor with valid arguments
   succeeds (when no library call fails) and leaves the start bit 0; the
   initMotor that follows a successful initMotor and start on that channel
   raises. *)
C2_InitThenStartThenInitFails ==
    /\ (Done("initMotor") /\ StartBit(snap, call.ch) = 0 /\ ValidInitArgs(call.a)
            /\ AllReturnedOk(log))
          => (result = "ok" /\ StartBit(reg, call.ch) = 0
                            /\ ~isMotorRunning(reg[call.ch].localConf))
    /\ (call.op = "initMotor" /\ pc # "idle" /\ trail = << "initMotor", "start", call.ch >>)
          => (pc = "done" /\ result \in Raised)

C2_Witness ==
    /\ Done("initMotor")
    /\ trail = << "initMotor", "start", call.ch >>
    /\ ValidInitArgs(call.a)
    /\ result = "IllegalState"

(* C3: a stop on a Running channel in which every library call succeeds
   leaves the start bit 0, whatever the run mode and the acceleration
   argument. *)
C3_StopResetsStartBit ==
    (Done("stop") /\ StartBit(snap, call.ch) = 1 /\ AllReturnedOk(log))
        => StartBit(reg, call.ch) = 0

(* C4: start needs no state: it issues exactly one atomic set, of bit 5 of
   its channel; when that succeeds the motor is running and nothing but
   that bit has changed. *)
C4_StartSetsOnlyStartBit ==
    (call.op = "start" /\ pc # "idle")
        => /\ Len(log) <= 1
           /\ \A i \in 1..Len(log) :
                 /\ log[i].k = "set_local_config_reg_bits_atomic"
                 /\ log[i].ch = call.ch
                 /\ log[i].v = Mask(START)
           /\ pc = "done" => Len(log) = 1
           /\ (pc = "done" /\ AllReturnedOk(log)) =>
                 /\ result = "ok"
                 /\ isMotorRunning(reg[call.ch].localConf)
                 /\ StartBit(reg, call.ch) = 1
                 /\ reg[call.ch].localConf =
                        snap[call.ch].localConf
                          + (IF StartBit(snap, call.ch) = 0 THEN Mask(START) ELSE 0)
                 /\ \A ch \in Channels :
                        [reg[ch] EXCEPT !.localConf = 0] = [snap[ch] EXCEPT !.localConf = 0]
                 /\ \A ch \in Channels \ {call.ch} : reg[ch] = snap[ch]

C4_Witness ==
    /\ Done("start")
    /\ result = "ok"
    /\ StartBit(snap, call.ch) = 1
    /\ getRunMode(snap[call.ch].localConf) = FIXED_SPEED

(* C5: changeSollSpeedWhileRunning on a channel whose start bit is 0 raises
   and changes no register: neither the acceleration nor the soll prescaler
   is written. *)
C5_ChangeSollWhileStoppedRejected ==
    (call.op = "changeSollSpeedWhileRunning" /\ pc # "idle" /\ StartBit(snap, call.ch) = 0)
        => /\ pc = "done"
           /\ result \in Raised
           /\ Writes(log) = << >>
           /\ reg = snap

C5_Witness ==
    /\ Done("changeSollSpeedWhileRunning")
    /\ StartBit(snap, call.ch) = 0
    /\ call.a.sollSpeed > 0
    /\ call.a.steps >= 1
    /\ result = "IllegalState"

(* C6: changeSollSpeedWhileRunning writes the acceleration before the soll
   prescaler; a successful call hands ceil((start prescaler in hardware -
   new soll prescaler)/steps) to the acceleration write and
   max(1, floor(BC/sollSpeed)) to the soll prescaler write, and writes
   nothing else: the start prescaler is not written. *)
C6_ChangeSollWritesAccelerationFirst ==
    (call.op = "changeSollSpeedWhileRunning" /\ pc # "idle")
        => LET w == Writes(log)
               ch == call.ch
               quot == BASE_CLOCK \div call.a.sollSpeed
               soll == IF quot >= 1 THEN quot ELSE 1
           IN  /\ Len(w) <= 2
               /\ Len(w) >= 1 => (w[1].k = "set_acceleration" /\ w[1].ch = ch)
               /\ Len(w) = 2 => (w[2].k = "set_prescaler_top" /\ w[2].ch = ch)
               /\ reg[ch].prescalerStart = snap[ch].prescalerStart
               /\ (pc = "done" /\ result = "ok") =>
                     /\ Len(w) = 2
                     /\ w[1].v = CeilDiv(snap[ch].prescalerStart - soll, call.a.steps)
                     /\ w[2].v = soll
                     /\ reg[ch].prescalerTop = soll

C6_Witness ==
    /\ Done("changeSollSpeedWhileRunning")
    /\ result = "ok"
    /\ snap[call.ch].prescalerStart = 10000
    /\ call.a.sollSpeed = 2000000
    /\ call.a.steps = 50
    /\ reg[call.ch].acceleration = 200
    /\ reg[call.ch].prescalerTop = 1

\* the place of a write in the order the specification gives for initMotor:
\* 1 run mode, 2 start prescaler, 3 soll prescaler, 4 acceleration,
\* 5 steps to do, 6 direction, 7 step mode, 8 phase mode; 0 for any other
InitMotorRank(e) ==
    LET atomic == e.k \in {"set_local_config_reg_bits_atomic",
                           "reset_local_config_reg_bits_atomic"}
    IN  IF atomic /\ e.v \in {Mask(RUN_MODE_0), Mask(RUN_MODE_1),
                               Mask(RUN_MODE_0) + Mask(RUN_MODE_1)} THEN 1
        ELSE IF e.k = "set_prescaler_start" THEN 2
        ELSE IF e.k = "set_prescaler_top" THEN 3
        ELSE IF e.k = "set_acceleration" THEN 4
        ELSE IF e.k = "set_steps_to_do" THEN 5
        ELSE IF atomic /\ e.v = Mask(DIRECTION) THEN 6
        ELSE IF atomic /\ e.v = Mask(STEP_MODE) THEN 7
        ELSE IF atomic /\ e.v = Mask(PHASE_MODE) THEN 8
        ELSE 0

(* C7: the writes of an initMotor call come in the order run mode (one or
   two atomic operations), start prescaler, soll prescaler, acceleration,
   steps to do, direction, step mode, phase mode, none left out and none
   twice; a successful call has issued them all. *)
C7_InitMotorWriteOrder ==
    (call.op = "initMotor" /\ pc # "idle")
        => LET w == Writes(log)
           IN  /\ \A i \in 1..Len(w) : InitMotorRank(w[i]) >= 1 /\ w[i].ch = call.ch
               /\ Len(w) >= 1 => InitMotorRank(w[1]) = 1
               /\ \A i \in 1..(Len(w) - 1) :
                     \/ InitMotorRank(w[i + 1]) = InitMotorRank(w[i]) + 1
                     \/ InitMotorRank(w[i + 1]) = 1 /\ InitMotorRank(w[i]) = 1 /\ i = 1
               /\ (pc = "done" /\ result = "ok") =>
                     (Len(w) >= 8 /\ InitMotorRank(w[Len(w)]) = 8)

C7_Witness ==
    /\ Done("initMotor")
    /\ result = "ok"
    /\ Len(Writes(log)) = 9

(* C8: after a successful initMotor the registers of the channel hold
   start prescaler = max(1, floor(BC/startSpeed)), soll prescaler =
   max(1, floor(BC/sollSpeed)), acceleration = ceil((start prescaler -
   soll prescaler)/accSteps), steps to do = stepsToDo and run mode = mode. *)
C8_InitMotorRegisterValues ==
    (Done("initMotor") /\ result = "ok")
        => LET a == call.a
               r == reg[call.ch]
               qs == BASE_CLOCK \div a.startSpeed
               ql == BASE_CLOCK \div a.sollSpeed
               ps == IF qs >= 1 THEN qs ELSE 1
               pl == IF ql >= 1 THEN ql ELSE 1
           IN  /\ r.prescalerStart = ps
               /\ r.prescalerTop = pl
               /\ r.acceleration = CeilDiv(ps - pl, a.steps)
               /\ r.stepsToDo = a.steppsToDo
               /\ BitOf(r.localConf, RUN_MODE_0) + 2 * BitOf(r.localConf, RUN_MODE_1) = a.runMode

(* C9: setRunMode with the reserved mode raises, issues no write and no
   atomic set/reset and leaves the registers as they were; so does
   initMotor with the reserved mode on a stopped channel. *)
C9_ReservedRunModeRejected ==
    (/\ pc # "idle"
     /\ call.a.runMode = RESERVED
     /\ \/ call.op = "setRunMode"
        \/ call.op = "initMotor" /\ StartBit(snap, call.ch) = 0)
        => /\ pc = "done"
           /\ result \in Raised
           /\ Writes(log) = << >>
           /\ reg = snap

C9_Witness ==
    /\ Done("setRunMode")
    /\ call.a.runMode = RESERVED
    /\ result = "InvalidArgument"
    /\ getRunMode(reg[call.ch].localConf) = FIXED_SPEED

(* C10: bits 3-4 of a local configuration register that did not hold
   binary 11 never come to hold it, in no state a setRunMode or initMotor
   call passes through. *)
C10_RunModeFieldNeverReserved ==
    \A ch \in Channels :
        ~(BitOf(reg[ch].localConf, RUN_MODE_0) = 1 /\ BitOf(reg[ch].localConf, RUN_MODE_1) = 1)

(* C11: updateSpeeds on a channel whose start bit is 1 raises and writes no
   register; on a stopped channel with valid arguments it hands
   max(1, floor(BC/startSpeed)), max(1, floor(BC/sollSpeed)) and
   ceil((start - soll)/steps) to the start prescaler, soll prescaler and
   acceleration writes, issues no other write, and leaves the local
   configuration and the steps to do of the channel, and every other
   channel, as they were. *)
C11_UpdateSpeedsGuardAndFrame ==
    (call.op = "updateSpeeds" /\ pc # "idle")
        => LET w  == Writes(log)
               ch == call.ch
               a  == call.a
               qs == BASE_CLOCK \div a.startSpeed
               ql == BASE_CLOCK \div a.sollSpeed
               ps == IF qs >= 1 THEN qs ELSE 1
               pl == IF ql >= 1 THEN ql ELSE 1
           IN  /\ StartBit(snap, ch) = 1 =>
                     (pc = "done" /\ result \in Raised /\ w = << >> /\ reg = snap)
               /\ reg[ch].localConf = snap[ch].localConf
               /\ reg[ch].stepsToDo = snap[ch].stepsToDo
               /\ reg[ch].stepsHaveDone = snap[ch].stepsHaveDone
               /\ \A o \in Channels \ {ch} : reg[o] = snap[o]
               /\ \A i \in 1..Len(w) :
                     /\ w[i].ch = ch
                     /\ w[i].k \in {"set_prescaler_start", "set_prescaler_top", "set_acceleration"}
                     /\ \A j \in 1..Len(w) : w[j].k = w[i].k => j = i
               /\ (pc = "done" /\ StartBit(snap, ch) = 0 /\ a.startSpeed > 0 /\ a.sollSpeed > 0
                      /\ a.steps >= 1 /\ AllReturnedOk(log)) =>
                     /\ result = "ok"
                     /\ Len(w) = 3
                     /\ \A i \in 1..3 :
                           /\ w[i].k = "set_prescaler_start" => w[i].v = ps
                           /\ w[i].k = "set_prescaler_top" => w[i].v = pl
                           /\ w[i].k = "set_acceleration" => w[i].v = CeilDiv(ps - pl, a.steps)
                     /\ reg[ch].prescalerStart = ps
                     /\ reg[ch].prescalerTop = pl

C11_Witness ==
    /\ Done("updateSpeeds")
    /\ result = "ok"
    /\ call.a.sollSpeed = 2000000
    /\ snap[call.ch].prescalerTop = 1000
    /\ reg[call.ch].prescalerTop = 1
    /\ reg[call.ch].acceleration = 200
    /\ reg[call.ch].stepsToDo = 200

\* the bit of the local configuration register a bit-field method works on
FieldBit(op) ==
    IF op \in {"setDirection", "getDirection"} THEN DIRECTION
    ELSE IF op \in {"setStepMode", "getStepMode"} THEN STEP_MODE
    ELSE PHASE_MODE

\* the value handed to a bit-field setter
FieldArg(c) ==
    IF c.op = "setDirection" THEN c.a.direction
    ELSE IF c.op = "setStepMode" THEN c.a.stepMode
    ELSE c.a.phaseMode

(* C12: a successful setDirection, setStepMode or setPhaseMode(channel, v)
   changes nothing but its own bit of the channel's local configuration
   register, whatever the register held, and the matching getter called
   next on that channel returns v. *)
C12_BitFieldSetThenGet ==
    /\ (pc = "done" /\ call.op \in BitSetterOps /\ result = "ok")
          => LET ch  == call.ch
                 bit == FieldBit(call.op)
                 old == snap[ch].localConf
             IN  /\ reg[ch].localConf = old - BitOf(old, bit) * (2^bit) + FieldArg(call) * (2^bit)
                 /\ \A b \in 0..RESET_STEPS :
                       b # bit => BitOf(reg[ch].localConf, b) = BitOf(old, b)
                 /\ [reg[ch] EXCEPT !.localConf = 0] = [snap[ch] EXCEPT !.localConf = 0]
                 /\ \A o \in Channels \ {ch} : reg[o] = snap[o]
    /\ \A g \in {"Direction", "StepMode", "PhaseMode"} :
          (/\ pc = "done"
           /\ call.op = "get" \o g
           /\ result = "ok"
           /\ Len(trail) = 3
           /\ trail[1] = "set" \o g
           /\ trail[2] = call.ch)
              => retval = trail[3]

C12_Witness ==
    /\ Done("getDirection")
    /\ result = "ok"
    /\ trail = << "setDirection", call.ch, COUNTER_CLOCKWISE >>
    /\ retval = COUNTER_CLOCKWISE
    /\ reg[call.ch].localConf = RunningChannel.localConf - Mask(DIRECTION)

(* C13: for every speed > 0 the prescaler conversion returns
   max(1, floor(BC/speed)): 1 when speed > BC, and otherwise the p >= 1 with
   p * speed <= BC < (p + 1) * speed; for every speed <= 0 it raises. *)
C13_PrescalerClampedAndGuarded ==
    (pc = "done" /\ call.op = "_calculatePrescaler")
        => LET speed == call.a.startSpeed
           IN  IF speed > 0
                 THEN /\ result = "ok"
                      /\ retval >= 1
                      /\ IF speed > BASE_CLOCK
                            THEN retval = 1
                            ELSE /\ retval * speed <= BASE_CLOCK
                                 /\ BASE_CLOCK < (retval + 1) * speed
                 ELSE /\ result = "InvalidArgument"
                      /\ retval = NoValue

C13_Witness ==
    /\ pc = "done"
    /\ call.op = "_calculatePrescaler"
    /\ call.a.startSpeed > BASE_CLOCK
    /\ BASE_CLOCK = 12
    /\ retval = 1

\* the speed registers of every channel hold a value >= 1, the acceleration
\* register one that is not the unsigned image of a negative number
SpeedRegistersValid(r) ==
    \A ch \in Channels :
        /\ r[ch].prescalerStart >= 1
        /\ r[ch].prescalerTop >= 1
        /\ r[ch].acceleration >= 1
        /\ r[ch].acceleration < 2^(RegBits - 1)

\* speeds > 0 and step counts >= 1, as far as the call takes them
ValidSpeedCall(c) ==
    IF c.op \in {"initMotor", "updateSpeeds"}
        THEN c.a.startSpeed > 0 /\ c.a.sollSpeed > 0 /\ c.a.steps >= 1
    ELSE IF c.op = "changeSollSpeedWhileRunning"
        THEN c.a.sollSpeed > 0 /\ c.a.steps >= 1
    ELSE c.op = "stop" /\ (c.a.hasAcc => c.a.steps >= 1)

(* C14: a successful initMotor, updateSpeeds, changeSollSpeedWhileRunning or
   stop with valid arguments, begun in a state where every channel's
   prescaler and acceleration registers hold values >= 1 (the acceleration
   no wrapped negative), ends in such a state. *)
C14_SpeedRegistersStayValid ==
    (pc = "done" /\ result = "ok" /\ ValidSpeedCall(call) /\ SpeedRegistersValid(snap))
        => SpeedRegistersValid(reg)

(* C15: a public method called with a channel that is not a channel of the
   subdevice raises InvalidArgument without making a library call: no
   register is read or written. *)
C15_OutOfRangeChannelRejected ==
    (pc # "idle" /\ call.ch \notin Channels)
        => /\ pc = "done"
           /\ result = "InvalidArgument"
           /\ log = << >>
           /\ reg = snap

\* what a query has to return when the registers of its channel are r and
\* the base clock of the controller is bc
QueryValue(op, r, bc) ==
    IF op = "getStartSpeed" THEN [num |-> bc, den |-> r.prescalerStart]
    ELSE IF op = "getSollSpeed" THEN [num |-> bc, den |-> r.prescalerTop]
    ELSE IF op = "getAcceleration"
        THEN CeilDiv(r.prescalerStart - r.prescalerTop, r.acceleration)
    ELSE IF op = "getStepsToDo" THEN r.stepsToDo
    ELSE IF op = "getStepsHaveDone" THEN r.stepsHaveDone
    ELSE IF op = "getDirection" THEN r.localConf % 2
    ELSE IF op = "getStepMode" THEN (r.localConf \div 2) % 2
    ELSE IF op = "getPhaseMode" THEN (r.localConf \div 4) % 2
    ELSE IF op = "getRunMode" THEN (r.localConf \div 8) % 4
    ELSE IF op = "isMotorRunning" THEN (r.localConf \div 32) % 2 = 1
    ELSE r.localConf

(* C16: a query issues library reads of its own channel only, no write and
   no atomic set or reset, and changes no register; the value it returns is
   the one the registers hold when it is called, also when the hardware or
   another process changed them since the last query. *)
C16_QueriesReadOnlyAndFresh ==
    (call.op \in QueryOps /\ pc # "idle")
        => /\ Writes(log) = << >>
           /\ \A i \in 1..Len(log) : log[i].k \in ReadKinds /\ log[i].ch = call.ch
           /\ reg = snap
           /\ (pc = "done" /\ result = "ok") =>
                 retval = QueryValue(call.op, reg[call.ch], BASE_CLOCK)

C16_Witness ==
    /\ Done("getStepsToDo")
    /\ result = "ok"
    /\ trail = << "changed", "getStepsToDo", call.ch, 200 >>
    /\ retval = 7

(* C17: a successful resetStepsGlobal leaves the step counter of every
   channel at 0 and changes no other register; getStepsHaveDone then returns
   0 for every channel, as long as no motor has taken a step since. *)
C17_ResetStepsGlobalThenZero ==
    /\ (Done("resetStepsGlobal") /\ result = "ok")
          => \A ch \in Channels :
                /\ reg[ch].stepsHaveDone = 0
                /\ [reg[ch] EXCEPT !.stepsHaveDone = 0] = [snap[ch] EXCEPT !.stepsHaveDone = 0]
    /\ (Done("getStepsHaveDone") /\ result = "ok" /\ trail = << "resetStepsGlobal" >>)
          => retval = 0

C17_Witness ==
    /\ Done("getStepsHaveDone")
    /\ result = "ok"
    /\ trail = << "resetStepsGlobal" >>
    /\ call.ch = 1
    /\ isMotorRunning(reg[0].localConf)
    /\ isMotorRunning(reg[1].localConf)
    /\ nCalls = 3
    /\ retval = 0

\* the base clock as every finished call shows it to be the one the
\* controller keeps: no library read of it outside the constructor,
\* getBaseclock returns it, the speed queries divide it, updateSpeeds
\* divides it
UsesConstructedBaseClock ==
    /\ call.op # "__init__" => \A i \in 1..Len(log) : log[i].k # "get_baseclock"
    /\ Done("getBaseclock") => (result = "ok" /\ retval = BASE_CLOCK /\ log = << >>)
    /\ (Done("getStartSpeed") /\ result = "ok")
          => retval = [num |-> BASE_CLOCK, den |-> reg[call.ch].prescalerStart]
    /\ (Done("getSollSpeed") /\ result = "ok")
          => retval = [num |-> BASE_CLOCK, den |-> reg[call.ch].prescalerTop]
    /\ (Done("updateSpeeds") /\ result = "ok")
          => /\ reg[call.ch].prescalerStart * call.a.startSpeed <= BASE_CLOCK
             /\ BASE_CLOCK < (reg[call.ch].prescalerStart + 1) * call.a.startSpeed
             /\ reg[call.ch].prescalerTop * call.a.sollSpeed <= BASE_CLOCK
             /\ BASE_CLOCK < (reg[call.ch].prescalerTop + 1) * call.a.sollSpeed

(* C18: the base clock is read from the hardware in the constructor and
   nowhere else; the value the controller keeps never changes afterwards;
   getBaseclock returns it and the conversions use it, also when the base
   clock register of the hardware has come to hold another value. *)
C18_BaseClockReadOnceAtConstruction ==
    /\ [] UsesConstructedBaseClock
    /\ [][pc # "new" => BASE_CLOCK' = BASE_CLOCK]_vars

C18_Witness ==
    /\ Done("getStartSpeed")
    /\ result = "ok"
    /\ BASE_CLOCK = 1000000
    /\ baseclockReg = 500000
    /\ retval = [num |-> 1000000, den |-> 10000]

(* C19: once a library call of a controller call has returned < 0, that
   controller call makes no further library call: the failed call is the
   last one it issued, in initMotor and in the two atomic operations of
   setRunMode alike. *)
C19_NoLibraryCallAfterFailure ==
    \A i \in 1..Len(log) : ~log[i].ok => i = Len(log)

(* C20: a stop(channel, N) with N >= 1 on a channel whose run mode is
   fixed-speed reads the start and the soll prescaler from the hardware,
   hands ceil((start prescaler - soll prescaler)/N) to the acceleration
   write, and issues the atomic reset of the start bit only after that
   write has succeeded; with both prescalers >= 1 and no failing library
   call it does both. *)
C20_StopWritesAccelerationBeforeReset ==
    (/\ call.op = "stop"
     /\ pc # "idle"
     /\ call.a.hasAcc
     /\ call.a.steps >= 1
     /\ (snap[call.ch].localConf \div (2^RUN_MODE_0)) % 4 = FIXED_SPEED)
        => LET w  == Writes(log)
               ch == call.ch
               ps == snap[ch].prescalerStart
               pl == snap[ch].prescalerTop
           IN  /\ Len(w) <= 2
               /\ Len(w) >= 1 =>
                     /\ w[1].k = "set_acceleration"
                     /\ w[1].ch = ch
                     /\ w[1].v = CeilDiv(ps - pl, call.a.steps)
                     /\ Len(log) >= 4
                     /\ log[2].k = "get_prescaler_start" /\ log[2].ch = ch
                     /\ log[3].k = "get_prescaler_top" /\ log[3].ch = ch
                     /\ log[4] = w[1]
               /\ Len(w) = 2 =>
                     /\ w[1].ok
                     /\ w[2].k = "reset_local_config_reg_bits_atomic"
                     /\ w[2].ch = ch
                     /\ w[2].v = 2^START
               /\ (pc = "done" /\ AllReturnedOk(log) /\ ps >= 1 /\ pl >= 1) =>
                     (result = "ok" /\ Len(w) = 2 /\ StartBit(reg, ch) = 0)

C20_Witness ==
    /\ Done("stop")
    /\ result = "ok"
    /\ call.a.hasAcc
    /\ call.a.steps = 50
    /\ getRunMode(snap[call.ch].localConf) = FIXED_SPEED
    /\ StartBit(snap, call.ch) = 1
    /\ snap[call.ch].prescalerStart = 10000
    /\ snap[call.ch].prescalerTop = 1
    /\ Len(Writes(log)) = 2
    /\ reg[call.ch].acceleration = 200
    /\ StartBit(reg, call.ch) = 0

(* C21: a stop without an acceleration argument, or on a channel whose run
   mode is not fixed-speed, issues no write but the atomic reset of bit 5 of
   its channel: the acceleration register, every other register and every
   other bit of the local configuration are as they were; when no library
   call fails the start bit is 0. *)
C21_StopLeavesAccelerationAlone ==
    (/\ call.op = "stop"
     /\ pc # "idle"
     /\ \/ ~call.a.hasAcc
        \/ (snap[call.ch].localConf \div (2^RUN_MODE_0)) % 4 # FIXED_SPEED)
        => LET w  == Writes(log)
               ch == call.ch
               old == snap[ch].localConf
           IN  /\ Len(w) <= 1
               /\ \A i \in 1..Len(w) :
                     /\ w[i].k = "reset_local_config_reg_bits_atomic"
                     /\ w[i].ch = ch
                     /\ w[i].v = 2^START
               /\ reg[ch].acceleration = snap[ch].acceleration
               /\ [reg[ch] EXCEPT !.localConf = 0] = [snap[ch] EXCEPT !.localConf = 0]
               /\ \A b \in 0..RESET_STEPS :
                     b # START => BitOf(reg[ch].localConf, b) = BitOf(old, b)
               /\ \A o \in Channels \ {ch} : reg[o] = snap[o]
               /\ (pc = "done" /\ AllReturnedOk(log)) =>
                     /\ result = "ok"
                     /\ Len(w) = 1
                     /\ reg[ch].localConf = old - BitOf(old, START) * (2^START)

C21_Witness ==
    /\ Done("stop")
    /\ result = "ok"
    /\ call.a.hasAcc
    /\ call.a.steps = 50
    /\ (snap[call.ch].localConf \div (2^RUN_MODE_0)) % 4 = STEPPING
    /\ StartBit(snap, call.ch) = 1
    /\ snap[call.ch].acceleration # 0
    /\ reg[call.ch].acceleration = snap[call.ch].acceleration
    /\ StartBit(reg, call.ch) = 0

(* C22: a successful setRunMode(channel, m) with m disabled, stepping or
   fixed-speed leaves m in bits 3-4 of the channel's local configuration
   register, whatever the two bits held (0, 1, 2 or 3), and every other bit
   of the register, the start bit included, and every other register as it
   was; the getRunMode called next on that channel returns m. *)
C22_SetRunModeThenGet ==
    /\ (Done("setRunMode") /\ result = "ok")
          => LET ch  == call.ch
                 old == snap[ch].localConf
                 new == reg[ch].localConf
             IN  /\ call.a.runMode \in {DISABLED, STEPPING, FIXED_SPEED}
                 /\ (new \div (2^RUN_MODE_0)) % 4 = call.a.runMode
                 /\ new % (2^RUN_MODE_0) = old % (2^RUN_MODE_0)
                 /\ new \div (2^START) = old \div (2^START)
                 /\ [reg[ch] EXCEPT !.localConf = 0] = [snap[ch] EXCEPT !.localConf = 0]
                 /\ \A o \in Channels \ {ch} : reg[o] = snap[o]
    /\ (/\ Done("getRunMode")
        /\ result = "ok"
        /\ Len(trail) = 3
        /\ trail[1] = "setRunMode"
        /\ trail[2] = call.ch)
          => retval = trail[3]

C22_Witness ==
    /\ Done("getRunMode")
    /\ result = "ok"
    /\ trail = << "setRunMode", call.ch, STEPPING >>
    /\ nCalls = 2
    /\ retval = STEPPING
    /\ reg[call.ch].localConf = RunModeChannel(STEPPING, 1).localConf

\* a speed argument <= 0 or an acceleration step count < 1
InvalidSpeedCall(c) ==
    IF c.op \in {"initMotor", "updateSpeeds"}
        THEN c.a.startSpeed <= 0 \/ c.a.sollSpeed <= 0 \/ c.a.steps < 1
    ELSE c.op = "changeSollSpeedWhileRunning" /\ (c.a.sollSpeed <= 0 \/ c.a.steps < 1)

(* C23: an initMotor, updateSpeeds or changeSollSpeedWhileRunning call with
   a speed <= 0 or a step count < 1 never comes to its writes: it issues no
   write and no atomic set or reset, every register stays as it was, and it
   ends in an exception, the argument error whenever its reads succeeded and
   the channel was in the state the method asks for. *)
C23_ArgumentsValidatedBeforeWrites ==
    (pc # "idle" /\ InvalidSpeedCall(call))
        => /\ pc # "ops"
           /\ Writes(log) = << >>
           /\ \A i \in 1..Len(log) : log[i].k \in ReadKinds
           /\ reg = snap
           /\ pc = "done" =>
                 /\ result \in Raised
                 /\ (/\ AllReturnedOk(log)
                     /\ StartBit(snap, call.ch)
                           = (IF call.op = "changeSollSpeedWhileRunning" THEN 1 ELSE 0))
                       => result = "InvalidArgument"

C23_Witness ==
    /\ Done("changeSollSpeedWhileRunning")
    /\ StartBit(snap, call.ch) = 1
    /\ call.a.sollSpeed = 50
    /\ call.a.steps = 0
    /\ Len(log) = 2
    /\ AllReturnedOk(log)
    /\ result = "InvalidArgument"

\* the step count r read back for the step count n over the prescaler
\* difference d: the least one that gives the raw acceleration of n
ReadBackOf(d, n, r) ==
    /\ r >= 1
    /\ r <= n
    /\ CeilDiv(d, r) = CeilDiv(d, n)
    /\ \A k \in 1..(r - 1) : CeilDiv(d, k) # CeilDiv(d, n)
    /\ d % n = 0 => r = n

(* C24 as stated: converting a step count n >= 1 to a raw acceleration and
   back gives n, for all prescalers ps > pl >= 1; getAcceleration after a
   successful updateSpeeds with step count n returns n. *)
C24_RoundTripReturnsSteps ==
    /\ (/\ Done("_calculateStepsFromAcceleration")
        /\ call.a.prescaler_start > call.a.prescaler_soll
        /\ call.a.prescaler_soll >= 1
        /\ call.a.steps >= 1)
          => (result = "ok" /\ retval = call.a.steps)
    /\ (/\ Done("getAcceleration")
        /\ result = "ok"
        /\ Len(trail) = 3
        /\ trail[1] = "updateSpeeds"
        /\ trail[2] = call.ch)
          => retval = trail[3]

(* C24: converting a step count n >= 1 to a raw acceleration and back, for
   prescalers ps > pl >= 1, gives the least step count r <= n whose raw
   acceleration ceil((ps - pl)/r) is that of n; r = n when n divides
   ps - pl.  getAcceleration after a successful updateSpeeds with step
   count n that left the start prescaler above the soll prescaler returns
   that r. *)
C24_RoundTripReturnsLeastEquivalentSteps ==
    /\ (/\ Done("_calculateStepsFromAcceleration")
        /\ call.a.prescaler_start > call.a.prescaler_soll
        /\ call.a.prescaler_soll >= 1
        /\ call.a.steps >= 1)
          => /\ result = "ok"
             /\ ReadBackOf(call.a.prescaler_start - call.a.prescaler_soll, call.a.steps, retval)
    /\ (/\ Done("getAcceleration")
        /\ Len(trail) = 3
        /\ trail[1] = "updateSpeeds"
        /\ trail[2] = call.ch
        /\ AllReturnedOk(log)
        /\ reg[call.ch].prescalerStart > reg[call.ch].prescalerTop)
          => /\ result = "ok"
             /\ ReadBackOf(reg[call.ch].prescalerStart - reg[call.ch].prescalerTop, trail[3],
                           retval)

C24_Witness ==
    /\ Done("getAcceleration")
    /\ result = "ok"
    /\ trail = << "updateSpeeds", call.ch, 7000 >>
    /\ reg[call.ch].prescalerStart = 10000
    /\ reg[call.ch].prescalerTop = 1000
    /\ reg[call.ch].acceleration = 2
    /\ retval = 4500

\* the bits of the local configuration register a bit-changing method works
\* on
OwnBits(op) ==
    IF op = "setDirection" THEN {DIRECTION}
    ELSE IF op = "setStepMode" THEN {STEP_MODE}
    ELSE IF op = "setPhaseMode" THEN {PHASE_MODE}
    ELSE IF op = "setRunMode" THEN {RUN_MODE_0, RUN_MODE_1}
    ELSE IF op = "resetStepsLocal" THEN {RESET_STEPS}
    ELSE IF op \in {"start", "stop"} THEN {START}
    ELSE {}

BitChangingOps == {"setDirection", "setStepMode", "setPhaseMode", "setRunMode",
                   "resetStepsLocal", "start", "stop"}

(* C25: the operations a bit-changing method issues on the local
   configuration register are atomic set and reset operations on its own
   channel whose masks hold its own bits only; so every bit that is not its
   own is, at every point of the call, as the hardware and the other
   processes left it, also when they changed it while the call was in
   flight, and no method but start sets the start bit. *)
C25_BitChangesAtomicNoneLost ==
    (pc # "idle" /\ call.op \in BitChangingOps)
        => /\ \A i \in 1..Len(log) :
                 /\ log[i].k # "set_local_config_reg"
                 /\ log[i].k \in {"set_local_config_reg_bits_atomic",
                                   "reset_local_config_reg_bits_atomic"}
                       => /\ log[i].ch = call.ch
                          /\ \A b \in 0..(RegBits - 1) :
                                BitOf(log[i].v, b) = 1 => b \in OwnBits(call.op)
                 /\ (log[i].k = "set_local_config_reg_bits_atomic" /\ call.op # "start")
                       => BitOf(log[i].v, START) = 0
           /\ \A ch \in Channels, b \in 0..RESET_STEPS :
                 (ch # call.ch \/ b \notin OwnBits(call.op))
                     => BitOf(reg[ch].localConf, b) = BitOf(snap[ch].localConf, b)
           /\ call.op # "start" => StartBit(reg, call.ch) <= StartBit(snap, call.ch)

C25_Witness ==
    /\ Done("setRunMode")
    /\ result = "ok"
    /\ Len(log) = 2
    /\ call.ch = 0
    /\ call.a.runMode = STEPPING
    /\ nCalls = 1
    /\ trail = << "during", "setRunMode" >>
    /\ reg[0].localConf = FixedSpeedChannel.localConf - Mask(RUN_MODE_1) + Mask(RUN_MODE_0)
                              - Mask(START)

(* C26: resetStepsLocal(channel) issues one library call, the atomic set of
   bit 6 on that channel, and no read: bits 0-5 of the channel's local
   configuration register, its prescalers, acceleration and steps to do, and
   every register of the other channels stay as they were. *)
C26_ResetStepsLocalOnlyPulsesBit6 ==
    (pc # "idle" /\ call.op = "resetStepsLocal")
        => LET ch == call.ch
           IN  /\ Len(log) <= 1
               /\ pc = "done" => Len(log) = 1
               /\ \A i \in 1..Len(log) :
                     /\ log[i].k = "set_local_config_reg_bits_atomic"
                     /\ log[i].ch = ch
                     /\ log[i].v = 2^RESET_STEPS
               /\ reg[ch].localConf % (2^RESET_STEPS) = snap[ch].localConf % (2^RESET_STEPS)
               /\ reg[ch].prescalerStart = snap[ch].prescalerStart
               /\ reg[ch].prescalerTop = snap[ch].prescalerTop
               /\ reg[ch].acceleration = snap[ch].acceleration
               /\ reg[ch].stepsToDo = snap[ch].stepsToDo
               /\ \A o \in Channels \ {ch} : reg[o] = snap[o]
               /\ (pc = "done" /\ AllReturnedOk(log)) => result = "ok"

C26_Witness ==
    /\ Done("resetStepsLocal")
    /\ result = "ok"
    /\ call.ch = 1
    /\ nCalls = 1
    /\ snap[1].localConf = RunningChannel.localConf
    /\ snap[1].stepsHaveDone = 2
    /\ reg[1].localConf = RunningChannel.localConf + Mask(RESET_STEPS)
    /\ reg[0] = FixedSpeedChannel

\* the registers of channel ch that differ between r and s
ChangedRegisters(r, s, ch) == { f \in DOMAIN r[ch] : r[ch][f] # s[ch][f] }

\* what a reader saw of the channel while initMotor was in flight is a state
\* between two writes of the call: each register old or new, a later
\* register new only when the earlier ones are
ObservedDuringInitMotor ==
    (call.op = "initMotor" /\ pc # "idle" /\ Len(trail) = 6 /\ trail[1] = "observed")
        => LET old == snap[call.ch]
               qs  == BASE_CLOCK \div call.a.startSpeed
               ql  == BASE_CLOCK \div call.a.sollSpeed
               ps  == IF qs >= 1 THEN qs ELSE 1
               pl  == IF ql >= 1 THEN ql ELSE 1
               acc == CeilDiv(ps - pl, call.a.steps)
           IN  /\ trail[2] = call.ch
               /\ trail[4] \in {old.prescalerStart, ps}
               /\ trail[5] \in {old.prescalerTop, pl}
               /\ trail[6] \in {old.acceleration, acc}
               /\ (trail[6] # old.acceleration) => trail[5] = pl
               /\ (trail[5] # old.prescalerTop) => trail[4] = ps
               /\ (trail[4] # old.prescalerStart) => trail[3] = call.a.runMode

(* C27: every register operation of initMotor is a step of its own that
   changes at most one register of the channel and nothing of any other
   channel, so a call that changes several registers passes through states
   in which only the first of them are changed; a reader of the channel
   between two of the steps sees such a state, for example the new run mode
   and start prescaler with the old soll prescaler and acceleration. *)
C27_InitMotorNotAtomic ==
    /\ [] ObservedDuringInitMotor
    /\ [][(call.op = "initMotor" /\ pc = "ops" /\ log' # log)
            => /\ Len(log') = Len(log) + 1
               /\ Cardinality(ChangedRegisters(reg', reg, call.ch)) <= 1
               /\ \A o \in Channels \ {call.ch} : reg'[o] = reg[o]]_vars

C27_Witness ==
    /\ call.op = "initMotor"
    /\ pc = "ops"
    /\ call.ch = 1
    /\ snap[1] = ConfiguredChannel
    /\ trail = << "observed", 1, FIXED_SPEED, 5000, 1000, 180 >>
    /\ reg[1].prescalerTop = 500

\* the start bit a configuring method asks for
RequiredStartBit(op) == IF op = "changeSollSpeedWhileRunning" THEN 1 ELSE 0

ConfiguringOps == {"initMotor", "updateSpeeds", "changeSollSpeedWhileRunning"}

\* this step issues a write or an atomic set/reset of a configuring method
ConfiguringWriteStep == pc = "ops" /\ call.op \in ConfiguringOps /\ Len(log') = Len(log) + 1

(* C29 as stated: every write of changeSollSpeedWhileRunning is issued while
   the start bit of the channel is 1, every write of initMotor and
   updateSpeeds while it is 0, also when the hardware or another process
   changes the start bit between the check of the call and its writes. *)
C29_WritesLandInCheckedState ==
    [][ConfiguringWriteStep => StartBit(reg, call.ch) = RequiredStartBit(call.op)]_vars

(* C29: every write of changeSollSpeedWhileRunning is issued while the start
   bit of the channel is 1, and every write of initMotor and updateSpeeds
   while it is 0, as long as no register operation of the hardware or of
   another process has landed since the call began; the check and the
   writes are separate register accesses, and nothing holds the start bit
   in between. *)
C29_WritesLandInCheckedStateUnlessInterleaved ==
    [][(ConfiguringWriteStep /\ trail # << "during", call.op >>)
          => StartBit(reg, call.ch) = RequiredStartBit(call.op)]_vars

C29_Witness ==
    /\ Done("changeSollSpeedWhileRunning")
    /\ result = "ok"
    /\ trail # << "during", call.op >>
    /\ Len(Writes(log)) = 2
    /\ StartBit(reg, call.ch) = 1
    /\ reg[call.ch].prescalerTop = 500
    /\ reg[call.ch].acceleration = 190

----------------------------------------------------------------------------
(* FlinkDevice (flink_device.py): the device object every subdevice
   constructor asks for, and the transport handles it opens and closes. *)

MaxHostCalls == 4

FileNames == {"", "/dev/flink0", "/dev/flink1"}

irqVars == <<registeredIRQ, kernelIRQ, handler>>

HostCall(op, arg, res, lib) ==
    /\ nHostCalls < MaxHostCalls
    /\ nHostCalls' = nHostCalls + 1
    /\ hostCall' = [op |-> op, arg |-> arg, result |-> res, lib |-> lib]

\* what flink_open can return: NULL or a handle no earlier call returned
OpenOutcomes == {0, nHostCalls + 1}

\* the value Python receives for the pointer h: with the default restype of
\* a fresh library object NULL arrives as the int 0, with c_void_p as None
Received(h) == IF h = 0 /\ restype = "c_void_p" THEN None ELSE Pointer(h)

\* FlinkDevice(devFileName): __new__ hands out the one instance, and
\* __init__ runs on it at every construction: a fresh library object, fileOpen
\* and _openedFiles set anew, open(devFileName), then the restype setup
FlinkDevice(devFileName) ==
    /\ instance' = "FlinkDevice"
    /\ IF devFileName = ""
       THEN /\ HostCall("FlinkDevice", << devFileName >>, "Exception", << >>)
            /\ restype' = "c_int"
            /\ fileOpen' = FALSE
            /\ openedFiles' = {""}
            /\ UNCHANGED <<fileName, dev, handles>>
       ELSE \E h \in OpenOutcomes :
            /\ HostCall("FlinkDevice", << devFileName >>, "ok", << "flink_open" >>)
            /\ dev' = Pointer(h)
            /\ handles' = handles \cup ({h} \ {0})
            /\ openedFiles' = {"", devFileName}
            /\ fileName' = devFileName
            /\ fileOpen' = TRUE
            /\ restype' = "c_void_p"
    /\ UNCHANGED <<motorVars, irqVars>>

open(name) ==
    /\ instance # "None"
    /\ IF fileOpen
       THEN /\ HostCall("open", << name >>, "ok", << >>)
            /\ UNCHANGED <<fileOpen, openedFiles, fileName, dev, handles>>
       ELSE IF name \in openedFiles
       THEN /\ HostCall("open", << name >>, "Exception", << >>)
            /\ UNCHANGED <<fileOpen, openedFiles, fileName, dev, handles>>
       ELSE \E h \in OpenOutcomes :
            /\ dev' = Received(h)
            /\ handles' = handles \cup ({h} \ {0})
            /\ IF Received(h) = None
               THEN /\ HostCall("open", << name >>, "FlinkException", << "flink_open" >>)
                    /\ UNCHANGED <<fileOpen, openedFiles, fileName>>
               ELSE /\ HostCall("open", << name >>, "ok", << "flink_open" >>)
                    /\ openedFiles' = openedFiles \cup {name}
                    /\ fileName' = name
                    /\ fileOpen' = TRUE
    /\ UNCHANGED <<instance, restype, motorVars, irqVars>>

close ==
    /\ instance # "None"
    /\ IF ~fileOpen
       THEN /\ HostCall("close", << >>, "ok", << >>)
            /\ UNCHANGED <<fileOpen, openedFiles, fileName, dev, handles>>
       ELSE \E error \in {0, -1} :
            IF error # 0
            THEN /\ HostCall("close", << >>, "FlinkException", << "flink_close" >>)
                 /\ UNCHANGED <<fileOpen, openedFiles, fileName, dev, handles>>
            ELSE /\ HostCall("close", << >>, "ok", << "flink_close" >>)
                 /\ handles' = handles \ {dev.h}
                 /\ openedFiles' = openedFiles \ {fileName}
                 /\ dev' = None
                 /\ fileOpen' = FALSE
                 /\ UNCHANGED fileName
    /\ UNCHANGED <<instance, restype, motorVars, irqVars>>

InitDevice == Init

NextDevice ==
    \/ \E f \in FileNames : FlinkDevice(f)
    \/ \E f \in FileNames : open(f)
    \/ close

SpecDevice == InitDevice /\ [][NextDevice]_vars

(* C28: after any sequence of FlinkDevice() constructions and open/close
   calls at most one handle returned by flink_open is un-closed. *)
C28_AtMostOneUnclosedHandle == Cardinality(handles) <= 1

----------------------------------------------------------------------------
(* FlinkInterrupt (flink_interrupt.py): the registry of IRQs, the kernel
   registrations behind it and the signal handlers of the interpreter. *)

Irqs == {0, 1}

\* what a caller can pass as callback: a function, or something not callable
Callbacks == {"onIrq", "notCallable"}

callable(callback) == callback # "notCallable"

\* signal numbers the kernel hands out for a registration
SignalNumbers == {34, 35}

\* a dictionary after d[key] = value, and after del d[key]
SetItem(d, key, value) == [k \in DOMAIN d \cup {key} |-> IF k = key THEN value ELSE d[k]]

DelItem(d, key) == [k \in DOMAIN d \ {key} |-> d[k]]

\* FlinkInterrupt(): asks for the device object and starts with an empty
\* registry
FlinkInterrupt ==
    /\ instance = "None"
    /\ FlinkDevice("/dev/flink0")
    /\ dev'.h # 0

\* signal.signal can raise (ValueError outside the main thread or for a
\* number it does not accept): either outcome
registerIRQ(irq, callback) ==
    /\ instance # "None"
    /\ IF irq \in DOMAIN registeredIRQ
       THEN /\ HostCall("registerIRQ", << irq, callback >>, "FlinkException", << >>)
            /\ UNCHANGED irqVars
       ELSE IF ~callable(callback)
       THEN /\ HostCall("registerIRQ", << irq, callback >>, "TypeError", << >>)
            /\ UNCHANGED irqVars
       ELSE \E sigNr \in {-1} \cup SignalNumbers :
            IF sigNr < 0
            THEN /\ HostCall("registerIRQ", << irq, callback >>, "FlinkException",
                             << "flink_register_irq" >>)
                 /\ UNCHANGED irqVars
            ELSE /\ kernelIRQ' = kernelIRQ \cup {irq}
                 /\ \E installed \in BOOLEAN :
                    IF ~installed
                    THEN /\ HostCall("registerIRQ", << irq, callback >>, "ValueError",
                                     << "flink_register_irq", "signal" >>)
                         /\ UNCHANGED <<registeredIRQ, handler>>
                    ELSE /\ HostCall("registerIRQ", << irq, callback >>, "ok",
                                     << "flink_register_irq", "signal" >>)
                         /\ handler' = SetItem(handler, sigNr, callback)
                         /\ registeredIRQ' = SetItem(registeredIRQ, irq, << sigNr, callback >>)
    /\ UNCHANGED <<motorVars, instance, restype, fileOpen, openedFiles, fileName, dev, handles>>

unregisterIRQ(irq) ==
    /\ instance # "None"
    /\ IF irq \notin DOMAIN registeredIRQ
       THEN /\ HostCall("unregisterIRQ", << irq >>, "FlinkException", << >>)
            /\ UNCHANGED irqVars
       ELSE LET sigNr == registeredIRQ[irq][1]
                callback == registeredIRQ[irq][2]
            IN  \E error \in {0, -1} :
                IF error < 0
                THEN /\ HostCall("unregisterIRQ", << irq >>, "FlinkException",
                                 << "flink_unregister_irq" >>)
                     /\ registeredIRQ' = SetItem(registeredIRQ, irq, << sigNr, callback >>)
                     /\ UNCHANGED <<kernelIRQ, handler>>
                ELSE /\ kernelIRQ' = kernelIRQ \ {irq}
                     /\ \E installed \in BOOLEAN :
                        IF ~installed
                        THEN /\ HostCall("unregisterIRQ", << irq >>, "ValueError",
                                         << "flink_unregister_irq", "signal" >>)
                             /\ UNCHANGED <<registeredIRQ, handler>>
                        ELSE /\ HostCall("unregisterIRQ", << irq >>, "ok",
                                         << "flink_unregister_irq", "signal" >>)
                             /\ handler' = SetItem(handler, sigNr, "SIG_DFL")
                             /\ registeredIRQ' = DelItem(registeredIRQ, irq)
    /\ UNCHANGED <<motorVars, instance, restype, fileOpen, openedFiles, fileName, dev, handles>>

InitIrq == Init

NextIrq ==
    \/ FlinkInterrupt
    \/ \E irq \in Irqs, callback \in Callbacks : registerIRQ(irq, callback)
    \/ \E irq \in Irqs : unregisterIRQ(irq)

SpecIrq == InitIrq /\ [][NextIrq]_vars

(* C30: an IRQ number is a key of registeredIRQ exactly when its kernel
   registration made through this object is active. *)
C30_RegistryMatchesKernel == DOMAIN registeredIRQ = kernelIRQ

====
